---- MODULE Spec2Model ----
(***************************************************************************)
(* A model of the rusty_scheme interpreter (src/src/interpreter.rs): the   *)
(* value model, the environment chain, the tree-walking evaluator with its *)
(* native procedures, the Interpreter facade, and the continuation-passing *)
(* evaluator described in spec.md sections 4.2 and 4.4.                    *)
(***************************************************************************)
EXTENDS Integers, Sequences, FiniteSets, TLC

VARIABLES st, interpreters, last, nops, prog, pc, tw, cps, entered, stored

vars == <<st, interpreters, last, nops, prog, pc, tw, cps, entered, stored>>

-----------------------------------------------------------------------------
(* Value: the tagged union of interpreter.rs lines 209-219.                *)

(* A Value is the pair <<variant, payload>>.                                *)
Symbol(s) == <<"Symbol", s>>
Integer(i) == <<"Integer", i>>
Boolean(b) == <<"Boolean", b>>
String(s) == <<"String", s>>
List(l) == <<"List", l>>
Native(name) == <<"Procedure", <<"Native", name>>>>
Scheme(arg_names, body, env) ==
    <<"Procedure", <<"Scheme", arg_names, body, env>>>>
Macro(arg_names, body) == <<"Macro", <<arg_names, body>>>>
CustomType(tag, id) == <<"CustomType", <<tag, id>>>>

null == List(<<>>)

(* Equality of Values.  A comparison returns a boolean or never returns.   *)
Returns(b) == [k |-> "returns", v |-> b]
NeverReturns == [k |-> "never", v |-> FALSE]

(* impl PartialEq for Function: eq compares self with other by ==, which   *)
(* is eq on the same two Functions again, for every self and other.        *)
Function_eq(self, other) == NeverReturns

(* #[derive(PartialEq)] on Value: Values of different variants are         *)
(* unequal, Values of the same variant are compared field by field, a Vec  *)
(* by its length and then element by element up to the first difference.   *)
RECURSIVE Value_eq(_, _)
RECURSIVE Values_eq(_, _, _)
Values_eq(a, b, i) ==
    IF Len(a) # Len(b) THEN Returns(FALSE)
    ELSE IF i > Len(a) THEN Returns(TRUE)
    ELSE IF Value_eq(a[i], b[i]) # Returns(TRUE) THEN Value_eq(a[i], b[i])
    ELSE Values_eq(a, b, i + 1)
Value_eq(a, b) ==
    IF a[1] # b[1] THEN Returns(FALSE)
    ELSE IF a[1] = "List" THEN Values_eq(a[2], b[2], 1)
    ELSE IF a[1] = "Procedure" THEN Function_eq(a[2], b[2])
    ELSE IF a[1] = "Macro"
    THEN IF a[2][1] # b[2][1] THEN Returns(FALSE)
         ELSE Values_eq(a[2][2], b[2][2], 1)
    ELSE Returns(a[2] = b[2])

RECURSIVE Join(_, _)
Join(strs, sep) ==
    IF Len(strs) = 0 THEN ""
    ELSE IF Len(strs) = 1 THEN strs[1]
    ELSE strs[1] \o sep \o Join(Tail(strs), sep)

(* impl fmt::Display for Value *)
RECURSIVE Display(_)
Display(val) ==
    CASE val[1] = "Symbol" -> val[2]
      [] val[1] = "Integer" -> ToString(val[2])
      [] val[1] = "Boolean" -> "#" \o (IF val[2] THEN "t" ELSE "f")
      [] val[1] = "String" -> val[2]
      [] val[1] = "List" ->
            "(" \o Join([i \in 1..Len(val[2]) |-> Display(val[2][i])], " ") \o ")"
      [] val[1] = "Procedure" -> "#<procedure>"
      [] val[1] = "Macro" -> "#<macro>"
      [] val[1] = "CustomType" -> "#<" \o val[2][1] \o ">"

(* impl fmt::Debug for Value *)
RECURSIVE Debug(_)
Debug(val) ==
    CASE val[1] = "String" -> "\"" \o val[2] \o "\""
      [] val[1] = "List" ->
            "(" \o Join([i \in 1..Len(val[2]) |-> Debug(val[2][i])], " ") \o ")"
      [] OTHER -> Display(val)

(* {:?} of a slice or Vec of Values: the standard library's list format.   *)
DebugSlice(vals) ==
    "[" \o Join([i \in 1..Len(vals) |-> Debug(vals[i])], ", ") \o "]"

(* {:?} of a Rust String (names made of plain characters).                 *)
DebugString(s) == "\"" \o s \o "\""

-----------------------------------------------------------------------------
(* Results.  A computation returns Ok(value), Err(RuntimeError{message})   *)
(* or does not return at all (a panic of the host).  The interpreter state *)
(* st = [heap, out] is threaded through: heap is the arena of Environment  *)
(* nodes (an Rc<RefCell<Environment>> is an index into it), out is what    *)
(* was printed to standard output.                                         *)

Ok(val, s) == [k |-> "Ok", v |-> val, st |-> s]
Err(message, s) == [k |-> "Err", v |-> message, st |-> s]
Panic(message, s) == [k |-> "Panic", v |-> message, st |-> s]

EmptyMap == [key \in {} |-> key]
MapPut(m, key, val) ==
    [y \in DOMAIN m \cup {key} |-> IF y = key THEN val ELSE m[y]]

PredefinedFunctions ==
    {"define", "define-syntax-rule", "begin", "let", "set!", "lambda", "λ",
     "if", "+", "-", "*", "/", "<", ">", "=", "and", "or", "null?", "list",
     "car", "cdr", "cons", "append", "quote", "quasiquote", "error", "apply",
     "eval", "write", "display", "displayln", "print", "newline"}

(* struct Environment; parent = 0 is None.                                 *)
Environment(parent, values) ==
    [parent |-> parent, values |-> values, customs |-> EmptyMap]

(* Environment::new_root: the heap holding the root node alone.            *)
Environment_new_root ==
    <<Environment(0, [name \in PredefinedFunctions |-> Native(name)])>>

(* Environment::new_child: the new node's index is Len(heap) + 1.          *)
Environment_new_child(heap, parent) ==
    Append(heap, Environment(parent, EmptyMap))

(* Result<(), RuntimeError> of an operation on the environment heap.       *)
EnvOk(heap) == [k |-> "Ok", v |-> "", heap |-> heap]
EnvErr(message, heap) == [k |-> "Err", v |-> message, heap |-> heap]

(* Faulty variants of Environment::define, for testing the properties: one *)
(* keeps the first binding of a name, one rejects a second define.         *)
Environment_define_absent(heap, env, key, value) ==
    IF key \in DOMAIN heap[env].values THEN EnvOk(heap)
    ELSE EnvOk([heap EXCEPT ![env].values = MapPut(@, key, value)])
Environment_define_unique(heap, env, key, value) ==
    IF key \in DOMAIN heap[env].values
    THEN EnvErr("Duplicate define: " \o DebugString(key), heap)
    ELSE EnvOk([heap EXCEPT ![env].values = MapPut(@, key, value)])

(* Environment::define *)
Environment_define(heap, env, key, value) ==
    EnvOk([heap EXCEPT ![env].values = MapPut(@, key, value)])

(* Faulty variants of Environment::set: one changes the farthest node that *)
(* binds the key, one binds an unbound key in the root.                    *)
RECURSIVE Environment_set_farthest(_, _, _, _)
Environment_set_farthest(heap, env, key, value) ==
    IF /\ heap[env].parent # 0
       /\ Environment_set_farthest(heap, heap[env].parent, key, value).k = "Ok"
    THEN Environment_set_farthest(heap, heap[env].parent, key, value)
    ELSE IF key \in DOMAIN heap[env].values
    THEN EnvOk([heap EXCEPT ![env].values = MapPut(@, key, value)])
    ELSE EnvErr("Can't set! an undefined variable: " \o DebugString(key), heap)
RECURSIVE Environment_set_or_define(_, _, _, _)
Environment_set_or_define(heap, env, key, value) ==
    IF key \in DOMAIN heap[env].values \/ heap[env].parent = 0
    THEN EnvOk([heap EXCEPT ![env].values = MapPut(@, key, value)])
    ELSE Environment_set_or_define(heap, heap[env].parent, key, value)

(* Environment::set *)
RECURSIVE Environment_set(_, _, _, _)
Environment_set(heap, env, key, value) ==
    IF key \in DOMAIN heap[env].values
    THEN EnvOk([heap EXCEPT ![env].values = MapPut(@, key, value)])
    ELSE IF heap[env].parent # 0
         THEN Environment_set(heap, heap[env].parent, key, value)
         ELSE EnvErr("Can't set! an undefined variable: " \o DebugString(key),
                     heap)

(* A faulty variant of Environment::get: the binding farthest from env is  *)
(* the one found.                                                          *)
RECURSIVE Environment_get(_, _, _)
Environment_get_farthest(heap, env, key) ==
    IF heap[env].parent # 0 /\ Environment_get(heap, heap[env].parent, key).some
    THEN Environment_get(heap, heap[env].parent, key)
    ELSE IF key \in DOMAIN heap[env].values
    THEN [some |-> TRUE, val |-> heap[env].values[key]]
    ELSE [some |-> FALSE, val |-> null]

(* Environment::get *)
Environment_get(heap, env, key) ==
    IF key \in DOMAIN heap[env].values
    THEN [some |-> TRUE, val |-> heap[env].values[key]]
    ELSE IF heap[env].parent # 0
         THEN Environment_get(heap, heap[env].parent, key)
         ELSE [some |-> FALSE, val |-> null]

(* Environment::get_root *)
RECURSIVE Environment_get_root(_, _)
Environment_get_root(heap, env) ==
    IF heap[env].parent # 0
    THEN Environment_get_root(heap, heap[env].parent)
    ELSE env

(* Option<&T> *)
Some(v) == <<"Some", v>>
None == <<"None">>

(* Box<Any>: a value together with its type.                               *)
Box(type, val) == [type |-> type, val |-> val]

(* A faulty variant of Environment::get_custom: the type is not checked.   *)
Environment_get_custom_unchecked(heap, env, T, tag, identifier) ==
    IF tag \notin DOMAIN heap[env].customs THEN None
    ELSE IF identifier \notin DOMAIN heap[env].customs[tag] THEN None
    ELSE Some(heap[env].customs[tag][identifier].val)

(* Environment::get_custom::<T>: downcast_ref gives the value when the     *)
(* boxed value is a T.                                                     *)
Environment_get_custom(heap, env, T, tag, identifier) ==
    IF tag \notin DOMAIN heap[env].customs THEN None
    ELSE IF identifier \notin DOMAIN heap[env].customs[tag] THEN None
    ELSE IF heap[env].customs[tag][identifier].type = T
    THEN Some(heap[env].customs[tag][identifier].val)
    ELSE None

(* Environment::set_custom: the heap after it and the Value returned.      *)
Environment_set_custom(heap, env, tag, identifier, value) ==
    [heap |->
        [heap EXCEPT ![env].customs =
            MapPut(@, tag,
                   MapPut(IF tag \in DOMAIN @ THEN @[tag] ELSE EmptyMap,
                          identifier, value))],
     v |-> CustomType(tag, identifier)]

-----------------------------------------------------------------------------
(* Fixed-width integers.  Value::Integer holds an i64; the model keeps the *)
(* two's-complement behaviour at IntWidth bits.  st.checked tells whether  *)
(* the build checks arithmetic overflow (it panics) or wraps.              *)

IntWidth == 8
IntMin == -(2 ^ (IntWidth - 1))
IntMax == (2 ^ (IntWidth - 1)) - 1
Wrap(i) == ((i - IntMin) % (2 ^ IntWidth)) + IntMin

Arith(i, what, s) ==
    IF i >= IntMin /\ i <= IntMax THEN Ok(Integer(i), s)
    ELSE IF s.checked THEN Panic("attempt to " \o what \o " with overflow", s)
    ELSE Ok(Integer(Wrap(i)), s)

Abs(i) == IF i < 0 THEN -i ELSE i
(* Rust's integer division truncates towards zero.                         *)
TruncDiv(a, b) ==
    IF (a < 0) = (b < 0) THEN Abs(a) \div Abs(b) ELSE -(Abs(a) \div Abs(b))

-----------------------------------------------------------------------------
(* The tree-walking evaluator.                                             *)

(* try!: an outcome that is not Ok is returned as it is.                   *)
Try(r, F(_, _)) == IF r.k # "Ok" THEN r ELSE F(r.v, r.st)

AllocChild(s, parent) ==
    [s EXCEPT !.heap = Environment_new_child(s.heap, parent)]
(* try!(env.borrow_mut().define(..)) and try!(env.borrow_mut().set(..)):   *)
(* done is what the environment returned.                                  *)
Stored(done, s) ==
    IF done.k # "Ok" THEN Err(done.v, s)
    ELSE Ok(null, [s EXCEPT !.heap = done.heap])
Define(s, env, key, value) ==
    Stored(Environment_define(s.heap, env, key, value), s)

(* The index of the first element that is not a Symbol, or 0.              *)
FirstNonSymbol(list) ==
    IF \E i \in 1..Len(list) : list[i][1] # "Symbol"
    THEN CHOOSE i \in 1..Len(list) :
            /\ list[i][1] # "Symbol"
            /\ \A j \in 1..(i - 1) : list[j][1] = "Symbol"
    ELSE 0
SymbolNames(list) == [i \in 1..Len(list) |-> list[i][2]]

RECURSIVE evaluate_values_from(_, _, _, _, _)
RECURSIVE evaluate_value(_, _, _)
RECURSIVE evaluate_expression(_, _, _)
RECURSIVE apply_function(_, _, _, _)
RECURSIVE bind_arguments(_, _, _, _, _, _)
RECURSIVE expand_macro(_, _, _, _, _)
RECURSIVE native_fn(_, _, _, _)
RECURSIVE quote_value(_, _, _, _)
RECURSIVE quote_values(_, _, _, _, _, _)
RECURSIVE let_bindings(_, _, _, _, _, _)
RECURSIVE plus_loop(_, _, _, _, _)
RECURSIVE multiply_loop(_, _, _, _, _)
RECURSIVE and_loop(_, _, _, _, _)
RECURSIVE or_loop(_, _, _, _)
RECURSIVE list_loop(_, _, _, _, _)

(* A faulty variant of the loop below: after a form that fails, the loop   *)
(* goes on with the next form.                                             *)
RECURSIVE evaluate_values_from_resuming(_, _, _, _, _)
evaluate_values_from_resuming(values, i, res, env, s) ==
    IF i > Len(values) THEN Ok(res, s)
    ELSE IF evaluate_value(values[i], env, s).k # "Ok" /\ i < Len(values)
    THEN evaluate_values_from_resuming(values, i + 1, res, env,
                                       evaluate_value(values[i], env, s).st)
    ELSE Try(evaluate_value(values[i], env, s),
             LAMBDA v, s1 :
                evaluate_values_from_resuming(values, i + 1, v, env, s1))

(* evaluate_values: the for loop from index i on, res the value so far.    *)
evaluate_values_from(values, i, res, env, s) ==
    IF i > Len(values) THEN Ok(res, s)
    ELSE Try(evaluate_value(values[i], env, s),
             LAMBDA v, s1 : evaluate_values_from(values, i + 1, v, env, s1))

evaluate_values(values, env, s) ==
    evaluate_values_from(values, 1, null, env, s)

(* evaluate_value on a Symbol, got being env.borrow().get(v).              *)
evaluate_symbol(value, got, s) ==
    IF got.some THEN Ok(got.val, s)
    ELSE Err("Identifier not found: " \o Debug(value), s)

evaluate_value(value, env, s) ==
    CASE value[1] = "Symbol" ->
            evaluate_symbol(value, Environment_get(s.heap, env, value[2]), s)
      [] value[1] = "List" ->
            IF Len(value[2]) > 0
            THEN evaluate_expression(value[2], env, s)
            ELSE Ok(null, s)
      [] OTHER -> Ok(value, s)

(* A faulty variant of evaluate_expression: the remaining elements are     *)
(* evaluated before the head is found to be no procedure.                  *)
evaluate_expression_eager(values, env, s) ==
    IF Len(values) = 0
    THEN Err("Can't evaluate an empty expression: " \o DebugSlice(values), s)
    ELSE Try(evaluate_value(values[1], env, s),
             LAMBDA first, s1 :
                CASE first[1] = "Procedure" ->
                        apply_function(first, Tail(values), env, s1)
                  [] first[1] = "Macro" ->
                        expand_macro(first[2][1], first[2][2], Tail(values),
                                     env, s1)
                  [] OTHER ->
                        Try(evaluate_values(Tail(values), env, s1),
                            LAMBDA v, s2 :
                                Err("First element in an expression must be a procedure: "
                                        \o Debug(first), s2)))

evaluate_expression(values, env, s) ==
    IF Len(values) = 0
    THEN Err("Can't evaluate an empty expression: " \o DebugSlice(values), s)
    ELSE Try(evaluate_value(values[1], env, s),
             LAMBDA first, s1 :
                CASE first[1] = "Procedure" ->
                        apply_function(first, Tail(values), env, s1)
                  [] first[1] = "Macro" ->
                        expand_macro(first[2][1], first[2][2], Tail(values),
                                     env, s1)
                  [] OTHER ->
                        Err("First element in an expression must be a procedure: "
                                \o Debug(first), s1))

(* A faulty variant of the loop below: the arguments are evaluated in the  *)
(* procedure's environment.                                                *)
RECURSIVE bind_arguments_in_callee(_, _, _, _, _, _)
bind_arguments_in_callee(arg_names, args, i, env, proc_env, s) ==
    IF i > Len(arg_names) \/ i > Len(args) THEN Ok(null, s)
    ELSE Try(evaluate_value(args[i], proc_env, s),
             LAMBDA val, s1 :
                Try(Define(s1, proc_env, arg_names[i], val),
                    LAMBDA unit, s2 :
                        bind_arguments_in_callee(arg_names, args, i + 1, env,
                                                 proc_env, s2)))

(* apply_function, the loop over arg_names.zip(args) from index i on.      *)
bind_arguments(arg_names, args, i, env, proc_env, s) ==
    IF i > Len(arg_names) \/ i > Len(args) THEN Ok(null, s)
    ELSE Try(evaluate_value(args[i], env, s),
             LAMBDA val, s1 :
                Try(Define(s1, proc_env, arg_names[i], val),
                    LAMBDA unit, s2 :
                        bind_arguments(arg_names, args, i + 1, env, proc_env,
                                       s2)))

(* Faulty variants of apply_function on a Function::Scheme: one defines    *)
(* the parameters in func_env itself, one runs the body in proc_env.       *)
apply_function_scheme_leaky(arg_names, body, func_env, args, env, s) ==
    IF Len(arg_names) # Len(args)
    THEN Err("Must supply exactly " \o ToString(Len(arg_names))
                \o " arguments to function: " \o DebugSlice(args), s)
    ELSE Try(bind_arguments(arg_names, args, 1, env, func_env, s),
             LAMBDA unit, s1 :
                evaluate_values(body, Len(s1.heap) + 1,
                                AllocChild(s1, func_env)))
apply_function_scheme_flat(arg_names, body, func_env, args, env, s) ==
    IF Len(arg_names) # Len(args)
    THEN Err("Must supply exactly " \o ToString(Len(arg_names))
                \o " arguments to function: " \o DebugSlice(args), s)
    ELSE Try(bind_arguments(arg_names, args, 1, env, Len(s.heap) + 1,
                            AllocChild(s, func_env)),
             LAMBDA unit, s1 : evaluate_values(body, Len(s.heap) + 1, s1))

(* apply_function on a Function::Scheme: proc_env is the new child of      *)
(* func_env, inner_env the new child of proc_env.                          *)
apply_function_scheme(arg_names, body, func_env, args, env, s) ==
    IF Len(arg_names) # Len(args)
    THEN Err("Must supply exactly " \o ToString(Len(arg_names))
                \o " arguments to function: " \o DebugSlice(args), s)
    ELSE Try(bind_arguments(arg_names, args, 1, env, Len(s.heap) + 1,
                            AllocChild(s, func_env)),
             LAMBDA unit, s1 :
                evaluate_values(body, Len(s1.heap) + 1,
                                AllocChild(s1, Len(s.heap) + 1)))

apply_function(func, args, env, s) ==
    IF func[2][1] = "Native"
    THEN native_fn(func[2][2], args, env, s)
    ELSE apply_function_scheme(func[2][2], func[2][3], func[2][4], args, env, s)

(* A faulty variant of the substitution: nested lists are left as they     *)
(* are.                                                                    *)
expand_macro_substitute_value_shallow(value, substitutions) ==
    IF value[1] = "Symbol" /\ value[2] \in DOMAIN substitutions
    THEN substitutions[value[2]]
    ELSE value

(* expand_macro_substitute_value / expand_macro_substitute_values *)
RECURSIVE expand_macro_substitute_value(_, _)
expand_macro_substitute_value(value, substitutions) ==
    CASE value[1] = "Symbol" ->
            IF value[2] \in DOMAIN substitutions
            THEN substitutions[value[2]]
            ELSE value
      [] value[1] = "List" ->
            List([i \in 1..Len(value[2]) |->
                    expand_macro_substitute_value(value[2][i], substitutions)])
      [] OTHER -> value

expand_macro_substitute_values(values, substitutions) ==
    [i \in 1..Len(values) |->
        expand_macro_substitute_value(values[i], substitutions)]

(* The HashMap expand_macro fills from arg_names.zip(args).                *)
RECURSIVE Substitutions(_, _, _, _)
Substitutions(arg_names, args, i, m) ==
    IF i > Len(arg_names) \/ i > Len(args) THEN m
    ELSE Substitutions(arg_names, args, i + 1, MapPut(m, arg_names[i], args[i]))

expand_macro(arg_names, body, args, env, s) ==
    evaluate_values(
        expand_macro_substitute_values(body,
            Substitutions(arg_names, args, 1, EmptyMap)),
        env, s)

-----------------------------------------------------------------------------
(* Native procedures.                                                      *)

(* native_define with a list as its first argument:                        *)
(* (define (<name> <args>) <body>).                                        *)
native_define_procedure(list, args, env, s) ==
    IF Len(list) < 1
    THEN Err("Must supply at least one argument in list part of define: "
                \o DebugSlice(list), s)
    ELSE IF list[1][1] # "Symbol"
    THEN Err("Must supply a symbol in list part of define: "
                \o DebugSlice(list), s)
    ELSE IF FirstNonSymbol(Tail(list)) # 0
    THEN Err("Unexpected argument in define arguments: "
                \o Debug(Tail(list)[FirstNonSymbol(Tail(list))]), s)
    ELSE Define(s, env, list[1][2],
                Scheme(SymbolNames(Tail(list)), Tail(args), env))

native_define(args, env, s) ==
    IF Len(args) < 2
    THEN Err("Must supply at least two arguments to define: "
                \o DebugSlice(args), s)
    ELSE CASE args[1][1] = "Symbol" ->
                Try(evaluate_value(args[2], env, s),
                    LAMBDA val, s1 :
                        Define(s1, env, args[1][2], val))
           [] args[1][1] = "List" ->
                native_define_procedure(args[1][2], args, env, s)
           [] OTHER ->
                Err("Unexpected value for name in define: "
                        \o DebugSlice(args), s)

(* native_define_syntax_rule with the pattern list (<name> <args>).        *)
native_define_syntax_rule_pattern(list, args, env, s) ==
    IF Len(list) < 1
    THEN Err("Must supply at least one argument in list part of define-syntax-rule: "
                \o DebugSlice(list), s)
    ELSE IF list[1][1] # "Symbol"
    THEN Err("Must supply a symbol in list part of define: "
                \o DebugSlice(list), s)
    ELSE IF FirstNonSymbol(Tail(list)) # 0
    THEN Err("Unexpected argument in define-syntax-rule arguments: "
                \o Debug(Tail(list)[FirstNonSymbol(Tail(list))]), s)
    ELSE Define(s, env, list[1][2],
                Macro(SymbolNames(Tail(list)), Tail(args)))

native_define_syntax_rule(args, env, s) ==
    IF Len(args) # 2
    THEN Err("Must supply exactly two arguments to define-syntax-rule: "
                \o DebugSlice(args), s)
    ELSE IF args[1][1] # "List"
    THEN Err("Unexpected value for pattern in define-syntax-rule: "
                \o DebugSlice(args), s)
    ELSE native_define_syntax_rule_pattern(args[1][2], args, env, s)

native_begin(args, env, s) ==
    IF Len(args) < 1
    THEN Err("Must supply at least one argument to begin: "
                \o DebugSlice(args), s)
    ELSE evaluate_values(args, env, s)

(* native_let, the loop over the binding list from index i on.             *)
let_bindings(list, i, args, env, let_env, s) ==
    IF i > Len(list) THEN Ok(null, s)
    ELSE IF list[i][1] # "List"
    THEN Err("Unexpected value inside expression in let: "
                \o Debug(list[i]), s)
    ELSE IF Len(list[i][2]) # 2
    THEN Err("let expression values must have exactly 2 params: "
                \o DebugSlice(list[i][2]), s)
    ELSE IF list[i][2][1][1] # "Symbol"
    THEN Err("Unexpected value for name in set!: " \o DebugSlice(args), s)
    ELSE Try(evaluate_value(list[i][2][2], env, s),
             LAMBDA val, s1 :
                Try(Define(s1, let_env, list[i][2][1][2], val),
                    LAMBDA unit, s2 :
                        let_bindings(list, i + 1, args, env, let_env, s2)))

(* native_let: let_env is the new child of env, inner_env the new child    *)
(* of let_env.                                                             *)
native_let(args, env, s) ==
    IF Len(args) < 2
    THEN Err("Must supply at least two arguments to let: "
                \o DebugSlice(args), s)
    ELSE IF args[1][1] # "List"
    THEN Err("Unexpected value for expressions in let: "
                \o DebugSlice(args), AllocChild(s, env))
    ELSE Try(let_bindings(args[1][2], 1, args, env, Len(s.heap) + 1,
                          AllocChild(s, env)),
             LAMBDA unit, s1 :
                evaluate_values(Tail(args), Len(s1.heap) + 1,
                                AllocChild(s1, Len(s.heap) + 1)))

native_set(args, env, s) ==
    IF Len(args) # 2
    THEN Err("Must supply exactly two arguments to set!: "
                \o DebugSlice(args), s)
    ELSE IF args[1][1] # "Symbol"
    THEN Err("Unexpected value for name in set!: " \o DebugSlice(args), s)
    ELSE Try(evaluate_value(args[2], env, s),
             LAMBDA val, s1 :
                Stored(Environment_set(s1.heap, env, args[1][2], val), s1))

(* A faulty variant of native_lambda: the procedure holds a copy of the    *)
(* environment node, made when the lambda is evaluated.                    *)
native_lambda_snapshot(args, env, s) ==
    IF Len(args) < 2
    THEN Err("Must supply at least two arguments to lambda: "
                \o DebugSlice(args), s)
    ELSE IF args[1][1] # "List"
    THEN Err("Unexpected value for arguments in lambda: "
                \o DebugSlice(args), s)
    ELSE IF FirstNonSymbol(args[1][2]) # 0
    THEN Err("Unexpected argument in lambda arguments: "
                \o Debug(args[1][2][FirstNonSymbol(args[1][2])]), s)
    ELSE Ok(Scheme(SymbolNames(args[1][2]), Tail(args), Len(s.heap) + 1),
            [s EXCEPT !.heap = Append(@, @[env])])

native_lambda(args, env, s) ==
    IF Len(args) < 2
    THEN Err("Must supply at least two arguments to lambda: "
                \o DebugSlice(args), s)
    ELSE IF args[1][1] # "List"
    THEN Err("Unexpected value for arguments in lambda: "
                \o DebugSlice(args), s)
    ELSE IF FirstNonSymbol(args[1][2]) # 0
    THEN Err("Unexpected argument in lambda arguments: "
                \o Debug(args[1][2][FirstNonSymbol(args[1][2])]), s)
    ELSE Ok(Scheme(SymbolNames(args[1][2]), Tail(args), env), s)

(* A faulty variant of native_if: only #t selects the first branch.        *)
native_if_true_only(args, env, s) ==
    IF Len(args) # 3
    THEN Err("Must supply exactly three arguments to if: "
                \o DebugSlice(args), s)
    ELSE Try(evaluate_value(args[1], env, s),
             LAMBDA condition, s1 :
                IF condition = Boolean(TRUE)
                THEN evaluate_value(args[2], env, s1)
                ELSE evaluate_value(args[3], env, s1))

(* A faulty variant of native_if: both branches are evaluated, then one    *)
(* of the two values is returned.                                          *)
native_if_both_branches(args, env, s) ==
    IF Len(args) # 3
    THEN Err("Must supply exactly three arguments to if: "
                \o DebugSlice(args), s)
    ELSE Try(evaluate_value(args[1], env, s),
             LAMBDA condition, s1 :
                Try(evaluate_value(args[2], env, s1),
                    LAMBDA first, s2 :
                        Try(evaluate_value(args[3], env, s2),
                            LAMBDA second, s3 :
                                IF condition = Boolean(FALSE)
                                THEN Ok(second, s3)
                                ELSE Ok(first, s3))))

native_if(args, env, s) ==
    IF Len(args) # 3
    THEN Err("Must supply exactly three arguments to if: "
                \o DebugSlice(args), s)
    ELSE Try(evaluate_value(args[1], env, s),
             LAMBDA condition, s1 :
                IF condition = Boolean(FALSE)
                THEN evaluate_value(args[3], env, s1)
                ELSE evaluate_value(args[2], env, s1))

(* native_plus, the loop from argument i on with the running sum.          *)
plus_loop(args, i, sum, env, s) ==
    IF i > Len(args) THEN Ok(Integer(sum), s)
    ELSE Try(evaluate_value(args[i], env, s),
             LAMBDA v, s1 :
                IF v[1] # "Integer"
                THEN Err("Unexpected value during +: " \o Debug(args[i]), s1)
                ELSE Try(Arith(sum + v[2], "add", s1),
                         LAMBDA next, s2 :
                            plus_loop(args, i + 1, next[2], env, s2)))

native_plus(args, env, s) ==
    IF Len(args) < 2
    THEN Err("Must supply at least two arguments to +: " \o DebugSlice(args), s)
    ELSE plus_loop(args, 1, 0, env, s)

(* native_multiply, the loop from argument i on with the running product.  *)
multiply_loop(args, i, product, env, s) ==
    IF i > Len(args) THEN Ok(Integer(product), s)
    ELSE Try(evaluate_value(args[i], env, s),
             LAMBDA v, s1 :
                IF v[1] # "Integer"
                THEN Err("Unexpected value during *: " \o Debug(args[i]), s1)
                ELSE Try(Arith(product * v[2], "multiply", s1),
                         LAMBDA next, s2 :
                            multiply_loop(args, i + 1, next[2], env, s2)))

native_multiply(args, env, s) ==
    IF Len(args) < 2
    THEN Err("Must supply at least two arguments to *: " \o DebugSlice(args), s)
    ELSE multiply_loop(args, 1, 1, env, s)

(* Exactly two arguments, both evaluated left to right: Ok(<<l, r>>).      *)
TwoEvaluated(name, args, env, s) ==
    IF Len(args) # 2
    THEN Err("Must supply exactly two arguments to " \o name \o ": "
                \o DebugSlice(args), s)
    ELSE Try(evaluate_value(args[1], env, s),
             LAMBDA l, s1 :
                Try(evaluate_value(args[2], env, s1),
                    LAMBDA r, s2 : Ok(<<l, r>>, s2)))

(* The shape shared by -, /, <, > and =: two arguments, both evaluated,    *)
(* then the left and the right checked to be Integers.                     *)
TwoIntegers(name, args, env, s) ==
    Try(TwoEvaluated(name, args, env, s),
        LAMBDA lr, s1 :
            IF lr[1][1] # "Integer" \/ lr[2][1] # "Integer"
            THEN Err("Unexpected value during " \o name \o ": "
                        \o DebugSlice(args), s1)
            ELSE Ok(<<lr[1][2], lr[2][2]>>, s1))

native_minus(args, env, s) ==
    Try(TwoIntegers("-", args, env, s),
        LAMBDA lr, s1 : Arith(lr[1] - lr[2], "subtract", s1))

native_divide(args, env, s) ==
    Try(TwoIntegers("/", args, env, s),
        LAMBDA lr, s1 :
            IF lr[2] = 0 THEN Panic("attempt to divide by zero", s1)
            ELSE IF lr[1] = IntMin /\ lr[2] = -1
            THEN Panic("attempt to divide with overflow", s1)
            ELSE Ok(Integer(TruncDiv(lr[1], lr[2])), s1))

native_lessthan(args, env, s) ==
    Try(TwoIntegers("<", args, env, s),
        LAMBDA lr, s1 : Ok(Boolean(lr[1] < lr[2]), s1))

native_greaterthan(args, env, s) ==
    Try(TwoIntegers(">", args, env, s),
        LAMBDA lr, s1 : Ok(Boolean(lr[1] > lr[2]), s1))

native_equal(args, env, s) ==
    Try(TwoIntegers("=", args, env, s),
        LAMBDA lr, s1 : Ok(Boolean(lr[1] = lr[2]), s1))

and_loop(args, i, res, env, s) ==
    IF i > Len(args) THEN Ok(res, s)
    ELSE Try(evaluate_value(args[i], env, s),
             LAMBDA v, s1 :
                IF v = Boolean(FALSE) THEN Ok(Boolean(FALSE), s1)
                ELSE and_loop(args, i + 1, v, env, s1))

native_and(args, env, s) == and_loop(args, 1, Boolean(TRUE), env, s)

or_loop(args, i, env, s) ==
    IF i > Len(args) THEN Ok(Boolean(FALSE), s)
    ELSE Try(evaluate_value(args[i], env, s),
             LAMBDA v, s1 :
                IF v = Boolean(FALSE) THEN or_loop(args, i + 1, env, s1)
                ELSE Ok(v, s1))

native_or(args, env, s) == or_loop(args, 1, env, s)

(* Exactly one argument, which is evaluated.                               *)
OneEvaluated(name, word, args, env, s) ==
    IF Len(args) # 1
    THEN Err("Must supply exactly one " \o word \o " to " \o name \o ": "
                \o DebugSlice(args), s)
    ELSE evaluate_value(args[1], env, s)

native_null(args, env, s) ==
    Try(OneEvaluated("null?", "argument", args, env, s),
        LAMBDA v, s1 : Ok(Boolean(v[1] = "List" /\ Len(v[2]) = 0), s1))

(* native_list: map evaluate_value over the arguments, collect.            *)
list_loop(args, i, elements, env, s) ==
    IF i > Len(args) THEN Ok(List(elements), s)
    ELSE Try(evaluate_value(args[i], env, s),
             LAMBDA v, s1 :
                list_loop(args, i + 1, Append(elements, v), env, s1))

native_list(args, env, s) == list_loop(args, 1, <<>>, env, s)

native_car(args, env, s) ==
    Try(OneEvaluated("car", "argument", args, env, s),
        LAMBDA v, s1 :
            IF v[1] # "List" THEN Err("Must supply a list to car", s1)
            ELSE IF Len(v[2]) > 0 THEN Ok(Head(v[2]), s1)
            ELSE Err("Can't run car on an empty list", s1))

native_cdr(args, env, s) ==
    Try(OneEvaluated("cdr", "argument", args, env, s),
        LAMBDA v, s1 :
            IF v[1] # "List" THEN Err("Must supply a list to cdr", s1)
            ELSE IF Len(v[2]) > 0 THEN Ok(List(Tail(v[2])), s1)
            ELSE Err("Can't run cdr on an empty list", s1))

native_cons(args, env, s) ==
    Try(TwoEvaluated("cons", args, env, s),
        LAMBDA both, s1 :
            IF both[2][1] # "List"
            THEN Err("Second argument to cons must be a list: "
                        \o Debug(both[2]), s1)
            ELSE Ok(List(<<both[1]>> \o both[2][2]), s1))

native_append(args, env, s) ==
    Try(TwoEvaluated("append", args, env, s),
        LAMBDA both, s1 :
            IF both[1][1] # "List"
            THEN Err("First argument to append must be a list: "
                        \o Debug(both[1]), s1)
            ELSE IF both[2][1] # "List"
            THEN Err("Second argument to append must be a list: "
                        \o Debug(both[2]), s1)
            ELSE Ok(List(both[1][2] \o both[2][2]), s1))

(* quote_value on a List that is not an unquote form: the map over its     *)
(* elements from index i on, collected.                                    *)
quote_values(vec, i, new_vec, quasi, env, s) ==
    IF i > Len(vec) THEN Ok(List(new_vec), s)
    ELSE Try(quote_value(vec[i], quasi, env, s),
             LAMBDA v, s1 :
                quote_values(vec, i + 1, Append(new_vec, v), quasi, env, s1))

quote_value(value, quasi, env, s) ==
    IF value[1] # "List" THEN Ok(value, s)
    ELSE IF quasi /\ Len(value[2]) > 0 /\ value[2][1] = Symbol("unquote")
    THEN IF Len(value[2]) # 2
         THEN Err("Must supply exactly one argument to unquote: "
                    \o DebugSlice(value[2]), s)
         ELSE evaluate_value(value[2][2], env, s)
    ELSE quote_values(value[2], 1, <<>>, quasi, env, s)

native_quote(args, env, s) ==
    IF Len(args) # 1
    THEN Err("Must supply exactly one argument to quote: "
                \o DebugSlice(args), s)
    ELSE quote_value(args[1], FALSE, env, s)

(* A faulty variant of native_quasiquote: unquote forms are left literal.  *)
native_quasiquote_literal(args, env, s) ==
    IF Len(args) # 1
    THEN Err("Must supply exactly one argument to quasiquote: "
                \o DebugSlice(args), s)
    ELSE quote_value(args[1], FALSE, env, s)

native_quasiquote(args, env, s) ==
    IF Len(args) # 1
    THEN Err("Must supply exactly one argument to quasiquote: "
                \o DebugSlice(args), s)
    ELSE quote_value(args[1], TRUE, env, s)

native_error(args, env, s) ==
    Try(OneEvaluated("error", "arguments", args, env, s),
        LAMBDA e, s1 : Err(Debug(e), s1))

native_apply(args, env, s) ==
    IF Len(args) # 2
    THEN Err("Must supply exactly two arguments to apply: "
                \o DebugSlice(args), s)
    ELSE Try(evaluate_value(args[1], env, s),
             LAMBDA func, s1 :
                IF func[1] # "Procedure"
                THEN Err("First argument to apply must be a procedure: "
                            \o DebugSlice(args), s1)
                ELSE Try(evaluate_value(args[2], env, s1),
                         LAMBDA func_args, s2 :
                            IF func_args[1] # "List"
                            THEN Err("Second argument to apply must be a list of arguments: "
                                        \o DebugSlice(args), s2)
                            ELSE apply_function(func, func_args[2], env, s2)))

(* A faulty variant of native_eval: the datum is evaluated in the calling  *)
(* environment.                                                            *)
native_eval_in_caller(args, env, s) ==
    Try(OneEvaluated("eval", "argument", args, env, s),
        LAMBDA res, s1 : evaluate_value(res, env, s1))

native_eval(args, env, s) ==
    Try(OneEvaluated("eval", "argument", args, env, s),
        LAMBDA res, s1 :
            evaluate_value(res, Environment_get_root(s1.heap, env), s1))

(* print!: the text is appended to standard output.                        *)
PrintOut(s, text) == [s EXCEPT !.out = @ \o text]

(* A faulty variant of native_write: the value is printed with {}.         *)
native_write_bare(args, env, s) ==
    Try(OneEvaluated("write", "argument", args, env, s),
        LAMBDA val, s1 : Ok(null, PrintOut(s1, Display(val))))

native_write(args, env, s) ==
    Try(OneEvaluated("write", "argument", args, env, s),
        LAMBDA val, s1 : Ok(null, PrintOut(s1, Debug(val))))

native_display(args, env, s) ==
    Try(OneEvaluated("display", "argument", args, env, s),
        LAMBDA val, s1 : Ok(null, PrintOut(s1, Display(val))))

native_displayln(args, env, s) ==
    Try(OneEvaluated("displayln", "argument", args, env, s),
        LAMBDA val, s1 : Ok(null, PrintOut(s1, Display(val) \o "\n")))

native_print(args, env, s) ==
    Try(OneEvaluated("print", "argument", args, env, s),
        LAMBDA val, s1 :
            IF val[1] \in {"Symbol", "List"}
            THEN Ok(null, PrintOut(s1, "'" \o Debug(val)))
            ELSE Ok(null, PrintOut(s1, Debug(val))))

native_newline(args, env, s) ==
    IF Len(args) # 0
    THEN Err("Must supply exactly zero arguments to newline: "
                \o DebugSlice(args), s)
    ELSE Ok(null, PrintOut(s, "\n"))

(* The functions a host registers with Interpreter::define: one returns    *)
(* the list of the arguments it is given, one the value of x in the        *)
(* environment it is given.                                                *)
HostFunctions == {"host-list", "host-env"}
host_func(func, env, evaluated_args, s) ==
    CASE func = "host-list" -> Ok(List(evaluated_args), s)
      [] func = "host-env" -> evaluate_value(Symbol("x"), env, s)

RECURSIVE Interpreter_define_native(_, _, _, _, _, _)
(* A faulty variant of the closure below: func is given args as they are.  *)
Interpreter_define_native_unevaluated(func, args, i, evaluated_args, env, s) ==
    host_func(func, env, args, s)

(* The closure Interpreter::define wraps func in, its loop over args from  *)
(* index i on.                                                             *)
Interpreter_define_native(func, args, i, evaluated_args, env, s) ==
    IF i > Len(args) THEN host_func(func, env, evaluated_args, s)
    ELSE Try(evaluate_value(args[i], env, s),
             LAMBDA v, s1 :
                Interpreter_define_native(func, args, i + 1,
                                          Append(evaluated_args, v), env, s1))

(* The table of Environment::new_root and the closures of                  *)
(* Interpreter::define: the function a Native value holds.                 *)
native_fn(name, args, env, s) ==
    CASE name = "define" -> native_define(args, env, s)
      [] name = "define-syntax-rule" -> native_define_syntax_rule(args, env, s)
      [] name = "begin" -> native_begin(args, env, s)
      [] name = "let" -> native_let(args, env, s)
      [] name = "set!" -> native_set(args, env, s)
      [] name \in {"lambda", "λ"} -> native_lambda(args, env, s)
      [] name = "if" -> native_if(args, env, s)
      [] name = "+" -> native_plus(args, env, s)
      [] name = "-" -> native_minus(args, env, s)
      [] name = "*" -> native_multiply(args, env, s)
      [] name = "/" -> native_divide(args, env, s)
      [] name = "<" -> native_lessthan(args, env, s)
      [] name = ">" -> native_greaterthan(args, env, s)
      [] name = "=" -> native_equal(args, env, s)
      [] name = "and" -> native_and(args, env, s)
      [] name = "or" -> native_or(args, env, s)
      [] name = "null?" -> native_null(args, env, s)
      [] name = "list" -> native_list(args, env, s)
      [] name = "car" -> native_car(args, env, s)
      [] name = "cdr" -> native_cdr(args, env, s)
      [] name = "cons" -> native_cons(args, env, s)
      [] name = "append" -> native_append(args, env, s)
      [] name = "quote" -> native_quote(args, env, s)
      [] name = "quasiquote" -> native_quasiquote(args, env, s)
      [] name = "error" -> native_error(args, env, s)
      [] name = "apply" -> native_apply(args, env, s)
      [] name = "eval" -> native_eval(args, env, s)
      [] name = "write" -> native_write(args, env, s)
      [] name = "display" -> native_display(args, env, s)
      [] name = "displayln" -> native_displayln(args, env, s)
      [] name = "print" -> native_print(args, env, s)
      [] name = "newline" -> native_newline(args, env, s)
      [] name \in HostFunctions ->
            Interpreter_define_native(name, args, 1, <<>>, env, s)

-----------------------------------------------------------------------------
(* parse_custom_arg!(env, args[index] => cust), used by a native function  *)
(* of the host that expects a T behind the handle: the value registered    *)
(* in env under the handle, or a RuntimeError.                             *)
parse_custom_arg(env, args, index, cust, T, s) ==
    IF args[index][1] # "CustomType"
    THEN Err("wrong argument type; expected " \o cust, s)
    ELSE IF args[index][2][1] # cust
    THEN Err("wrong argument type; expected " \o cust, s)
    ELSE IF Environment_get_custom(s.heap, env, T, cust, args[index][2][2]) = None
    THEN Err("invalid custom", s)
    ELSE Ok(Environment_get_custom(s.heap, env, T, cust, args[index][2][2])[2], s)

-----------------------------------------------------------------------------
(* The Interpreter facade.                                                 *)

RuntimeError_to_string(message) == "RuntimeError: " \o message

(* The process before any interpreter is made: no environment, nothing    *)
(* printed; checked tells whether the build checks arithmetic overflow.    *)
Process(checked) == [heap |-> <<>>, out |-> "", checked |-> checked]

(* struct Interpreter: a handle on its root environment.                   *)
Interpreter(root) == [root |-> root]

(* Interpreter::new: a new root environment is put on the heap; self is    *)
(* the Interpreter returned.                                               *)
Interpreter_new(s) ==
    [self |-> Interpreter(Len(s.heap) + 1),
     st |-> [s EXCEPT !.heap = @ \o Environment_new_root]]

(* #[derive(Clone)] on Interpreter: the clone of the Rc is a handle on the *)
(* same root environment.                                                  *)
Interpreter_clone(self) == Interpreter(self.root)

(* Interpreter::define: name is bound in the root environment to the       *)
(* native function that wraps func.                                        *)
Interpreter_define(self, name, func, s) ==
    Stored(Environment_define(s.heap, self.root, name, Native(func)), s)

(* A faulty variant of Interpreter::run: every interpreter runs against    *)
(* the first root environment of the process.                              *)
Interpreter_run_global(self, values, s) == evaluate_values(values, 1, s)

(* Interpreter::run *)
Interpreter_run(self, values, s) == evaluate_values(values, self.root, s)

(* Interpreter::execute on the parsed input: Ok(v), or Err(e.to_string()). *)
Interpreter_execute_result(r) ==
    IF r.k = "Err" THEN Err(RuntimeError_to_string(r.v), r.st) ELSE r

(* A faulty variant of Interpreter::execute: a call that ends in an error  *)
(* leaves the state it started from.                                       *)
Interpreter_execute_rollback(self, values, s) ==
    IF Interpreter_run(self, values, s).k = "Err"
    THEN Err(RuntimeError_to_string(Interpreter_run(self, values, s).v), s)
    ELSE Interpreter_run(self, values, s)

Interpreter_execute(self, values, s) ==
    Interpreter_execute_result(Interpreter_run(self, values, s))

-----------------------------------------------------------------------------
(* Program text.  A text is the sequence of its characters.  The lexer     *)
(* turns it into tokens (each with the line and column where it starts),   *)
(* the parser turns the tokens into syntax nodes; both fail with a         *)
(* SyntaxError{message, line, column}.  The texts here are made of         *)
(* parentheses, blanks, line ends, decimal digits and identifier           *)
(* characters.                                                             *)

SyntaxError(message, line, column) ==
    [message |-> message, line |-> line, column |-> column]
SyntaxError_to_string(e) ==
    "SyntaxError: " \o e.message \o " (line: " \o ToString(e.line)
        \o ", column: " \o ToString(e.column) \o ")"

Parsed(val) == [k |-> "Ok", v |-> val]
NotParsed(e) == [k |-> "Err", v |-> e]

Digits == {"0", "1", "2", "3", "4", "5", "6", "7", "8", "9"}
Delimiters == {"(", ")", " ", "\n"}
DigitValue(c) == CHOOSE n \in 0..9 : ToString(n) = c

(* A token: OpenParen, CloseParen, Integer(val) or Identifier(val), with   *)
(* the line and column of its first character.                             *)
Token(token, val, line, column) ==
    [token |-> token, val |-> val, line |-> line, column |-> column]

(* The index after the run of characters of text from i on that are in     *)
(* (digits = TRUE) or are not delimiters (digits = FALSE).                 *)
RECURSIVE RunEnd(_, _, _)
RunEnd(text, i, digits) ==
    IF i > Len(text) THEN i
    ELSE IF digits /\ text[i] \notin Digits THEN i
    ELSE IF ~digits /\ text[i] \in Delimiters THEN i
    ELSE RunEnd(text, i + 1, digits)

RECURSIVE NumberOf(_)
NumberOf(digits) ==
    IF Len(digits) = 0 THEN 0
    ELSE 10 * NumberOf(SubSeq(digits, 1, Len(digits) - 1))
            + DigitValue(digits[Len(digits)])

(* lexer::tokenize, from character i on.  A number must be followed by a   *)
(* delimiter or by the end of the text.                                    *)
RECURSIVE lexer_tokenize_from(_, _, _, _, _)
lexer_tokenize_from(text, i, line, column, tokens) ==
    IF i > Len(text) THEN Parsed(tokens)
    ELSE IF text[i] = "\n"
    THEN lexer_tokenize_from(text, i + 1, line + 1, 1, tokens)
    ELSE IF text[i] = " "
    THEN lexer_tokenize_from(text, i + 1, line, column + 1, tokens)
    ELSE IF text[i] = "("
    THEN lexer_tokenize_from(text, i + 1, line, column + 1,
                             Append(tokens, Token("OpenParen", "(", line, column)))
    ELSE IF text[i] = ")"
    THEN lexer_tokenize_from(text, i + 1, line, column + 1,
                             Append(tokens, Token("CloseParen", ")", line, column)))
    ELSE IF text[i] \in Digits
    THEN IF RunEnd(text, i, TRUE) <= Len(text)
                /\ text[RunEnd(text, i, TRUE)] \notin Delimiters
         THEN NotParsed(SyntaxError(
                "Unexpected character when looking for a delimiter: "
                    \o text[RunEnd(text, i, TRUE)],
                line, column + (RunEnd(text, i, TRUE) - i)))
         ELSE lexer_tokenize_from(text, RunEnd(text, i, TRUE), line,
                column + (RunEnd(text, i, TRUE) - i),
                Append(tokens,
                       Token("Integer",
                           NumberOf(SubSeq(text, i, RunEnd(text, i, TRUE) - 1)),
                           line, column)))
    ELSE lexer_tokenize_from(text, RunEnd(text, i, FALSE), line,
            column + (RunEnd(text, i, FALSE) - i),
            Append(tokens,
                   Token("Identifier",
                       Join(SubSeq(text, i, RunEnd(text, i, FALSE) - 1), ""),
                       line, column)))

lexer_tokenize(text) == lexer_tokenize_from(text, 1, 1, 1, <<>>)

(* enum Node: Identifier(name), Integer(n) or List(nodes).                  *)
Node(variant, val) == <<variant, val>>

(* parser::parse, from token i on.  open holds the lists being read, the   *)
(* innermost last; open[1] is the sequence of top-level nodes.  A closing  *)
(* parenthesis with no list open and a list still open at the end of the   *)
(* tokens are errors.                                                      *)
RECURSIVE parser_parse_from(_, _, _)
parser_parse_from(tokens, i, open) ==
    IF i > Len(tokens)
    THEN IF Len(open) = 1 THEN Parsed(open[1])
         ELSE NotParsed(SyntaxError(
                "Unexpected end of input while looking for a closing paren",
                tokens[Len(tokens)].line, tokens[Len(tokens)].column))
    ELSE IF tokens[i].token = "OpenParen"
    THEN parser_parse_from(tokens, i + 1, Append(open, <<>>))
    ELSE IF tokens[i].token = "CloseParen"
    THEN IF Len(open) = 1
         THEN NotParsed(SyntaxError("Unexpected closing paren",
                                    tokens[i].line, tokens[i].column))
         ELSE parser_parse_from(tokens, i + 1,
                Append(SubSeq(open, 1, Len(open) - 2),
                       Append(open[Len(open) - 1],
                              Node("List", open[Len(open)]))))
    ELSE parser_parse_from(tokens, i + 1,
            [open EXCEPT ![Len(open)] =
                Append(@, Node(tokens[i].token, tokens[i].val))])

parser_parse(tokens) == parser_parse_from(tokens, 1, <<<<>>>>)

(* Value::from_node and Value::from_nodes *)
RECURSIVE Value_from_node(_)
Value_from_node(node) ==
    CASE node[1] = "Identifier" -> Symbol(node[2])
      [] node[1] = "Integer" -> Integer(node[2])
      [] node[1] = "List" ->
            List([i \in 1..Len(node[2]) |-> Value_from_node(node[2][i])])
Value_from_nodes(nodes) == [i \in 1..Len(nodes) |-> Value_from_node(nodes[i])]

(* Interpreter::parse: the Values of the text, or the error as a string.   *)
Interpreter_parse(input) ==
    IF lexer_tokenize(input).k # "Ok"
    THEN NotParsed(SyntaxError_to_string(lexer_tokenize(input).v))
    ELSE IF parser_parse(lexer_tokenize(input).v).k # "Ok"
    THEN NotParsed(SyntaxError_to_string(parser_parse(lexer_tokenize(input).v).v))
    ELSE Parsed(Value_from_nodes(parser_parse(lexer_tokenize(input).v).v))

(* The longest well-formed start of the text, in whole lines.              *)
RECURSIVE ParsedLines(_, _)
ParsedLines(input, n) ==
    IF n = 0 THEN <<>>
    ELSE IF (n = Len(input) \/ input[n] = "\n")
                /\ Interpreter_parse(SubSeq(input, 1, n)).k = "Ok"
    THEN Interpreter_parse(SubSeq(input, 1, n)).v
    ELSE ParsedLines(input, n - 1)

(* A faulty variant of Interpreter::execute on a text: the forms are run   *)
(* as they are read, so those before a syntax error have been evaluated    *)
(* when the error is returned.                                             *)
Interpreter_execute_input_streaming(self, input, s) ==
    IF Interpreter_parse(input).k # "Ok"
    THEN Err(Interpreter_parse(input).v,
             Interpreter_run(self, ParsedLines(input, Len(input)), s).st)
    ELSE Interpreter_execute(self, Interpreter_parse(input).v, s)

(* Interpreter::execute on a text: the whole text is parsed, and only a    *)
(* text that parsed is run.                                                *)
Interpreter_execute_input(self, input, s) ==
    IF Interpreter_parse(input).k # "Ok"
    THEN Err(Interpreter_parse(input).v, s)
    ELSE Interpreter_execute(self, Interpreter_parse(input).v, s)

-----------------------------------------------------------------------------
(* The continuation-passing evaluator: a trampoline over machine states    *)
(* (an expression to evaluate or a value to return, an environment, a      *)
(* continuation). The continuation k is a stack of frames, the first the   *)
(* innermost:                                                              *)
(*   <<"Rest", values, i, env>>       evaluate values[i..] in env          *)
(*   <<"Head", values, env>>          apply the value to Tail(values)      *)
(*   <<"Arg", arg_names, body, args, i, env, proc_env>>                    *)
(*                                    bind argument i, go on to the next   *)
(*   <<"Define", name, env>>          define name as the value in env      *)
(*   <<"Set", name, env>>             set! name to the value from env      *)
(*   <<"If", args, env>>              evaluate the branch the value picks  *)
(*   <<"Let", list, i, args, env, let_env>>                                *)
(*                                    bind binding i, go on to the next    *)

NoResult == [k |-> "none", v |-> null]
Push(k, frame) == <<frame>> \o k

(* The machine states: evaluate c in env, return the value c, finished.    *)
(* enter marks the state that starts a procedure body.                     *)
EvalState(c, env, k, s) ==
    [mode |-> "eval", c |-> c, env |-> env, k |-> k, s |-> s,
     enter |-> FALSE, r |-> NoResult]
ReturnState(val, k, s) ==
    [mode |-> "return", c |-> val, env |-> 0, k |-> k, s |-> s,
     enter |-> FALSE, r |-> NoResult]
DoneState(r) ==
    [mode |-> "done", c |-> null, env |-> 0, k |-> <<>>, s |-> r.st,
     enter |-> FALSE, r |-> [k |-> r.k, v |-> r.v]]

(* After a step that is done by the host: an error ends the loop, a value  *)
(* is returned to the continuation.                                        *)
Continue(r, k) ==
    IF r.k # "Ok" THEN DoneState(r) ELSE ReturnState(r.v, k, r.st)

(* A faulty variant of cps_eval_values: the last expression of a sequence  *)
(* is evaluated under a frame of its own, like the others.                 *)
cps_eval_values_framed(values, i, env, k, s) ==
    IF i > Len(values) THEN ReturnState(null, k, s)
    ELSE EvalState(values[i], env, Push(k, <<"Rest", values, i + 1, env>>), s)

(* A sequence of expressions from index i on: the last one is in tail      *)
(* position and is evaluated with the continuation of the sequence.        *)
cps_eval_values(values, i, env, k, s) ==
    IF i > Len(values) THEN ReturnState(null, k, s)
    ELSE IF i = Len(values) THEN EvalState(values[i], env, k, s)
    ELSE EvalState(values[i], env, Push(k, <<"Rest", values, i + 1, env>>), s)

(* The body of a procedure or of a let starts in the new child of env.     *)
cps_enter_body(body, env, k, s) ==
    [cps_eval_values(body, 1, Len(s.heap) + 1, k, AllocChild(s, env))
        EXCEPT !.enter = TRUE]

(* Closure application: the arguments from index i on are evaluated in the *)
(* caller's env, one frame each; then the body.                            *)
cps_bind(arg_names, body, args, i, env, proc_env, k, s) ==
    IF i > Len(args) THEN cps_enter_body(body, proc_env, k, s)
    ELSE EvalState(args[i], env,
            Push(k, <<"Arg", arg_names, body, args, i, env, proc_env>>), s)

cps_apply_closure(arg_names, body, func_env, args, env, k, s) ==
    IF Len(arg_names) # Len(args)
    THEN DoneState(Err("Must supply exactly " \o ToString(Len(arg_names))
                \o " arguments to function: " \o DebugSlice(args), s))
    ELSE cps_bind(arg_names, body, args, 1, env, Len(s.heap) + 1, k,
                  AllocChild(s, func_env))

(* let: the bindings from index i on, one frame each; then the body.       *)
cps_let(list, i, args, env, let_env, k, s) ==
    IF i > Len(list)
    THEN [cps_enter_body(Tail(args), let_env, k, s) EXCEPT !.enter = FALSE]
    ELSE IF list[i][1] # "List"
    THEN DoneState(Err("Unexpected value inside expression in let: "
                \o Debug(list[i]), s))
    ELSE IF Len(list[i][2]) # 2
    THEN DoneState(Err("let expression values must have exactly 2 params: "
                \o DebugSlice(list[i][2]), s))
    ELSE IF list[i][2][1][1] # "Symbol"
    THEN DoneState(Err("Unexpected value for name in set!: "
                \o DebugSlice(args), s))
    ELSE EvalState(list[i][2][2], env,
            Push(k, <<"Let", list, i, args, env, let_env>>), s)

(* A native procedure. The forms that direct control are steps of the      *)
(* machine; every other native procedure, and every malformed use of these *)
(* forms, is run by the host function, which evaluates what it needs       *)
(* through the shared evaluation entry point.                              *)
cps_native(name, args, env, k, s) ==
    CASE name = "define" /\ Len(args) >= 2 /\ args[1][1] = "Symbol" ->
            EvalState(args[2], env, Push(k, <<"Define", args[1][2], env>>), s)
      [] name = "set!" /\ Len(args) = 2 /\ args[1][1] = "Symbol" ->
            EvalState(args[2], env, Push(k, <<"Set", args[1][2], env>>), s)
      [] name = "if" /\ Len(args) = 3 ->
            EvalState(args[1], env, Push(k, <<"If", args, env>>), s)
      [] name = "begin" /\ Len(args) >= 1 ->
            cps_eval_values(args, 1, env, k, s)
      [] name = "let" /\ Len(args) >= 2 /\ args[1][1] = "List" ->
            cps_let(args[1][2], 1, args, env, Len(s.heap) + 1, k,
                    AllocChild(s, env))
      [] OTHER -> Continue(native_fn(name, args, env, s), k)

(* The head of the expression values has evaluated to first.               *)
cps_apply_head(first, values, env, k, s) ==
    CASE first[1] = "Procedure" ->
            IF first[2][1] = "Native"
            THEN cps_native(first[2][2], Tail(values), env, k, s)
            ELSE cps_apply_closure(first[2][2], first[2][3], first[2][4],
                                   Tail(values), env, k, s)
      [] first[1] = "Macro" ->
            cps_eval_values(
                expand_macro_substitute_values(first[2][2],
                    Substitutions(first[2][1], Tail(values), 1, EmptyMap)),
                1, env, k, s)
      [] OTHER ->
            DoneState(Err("First element in an expression must be a procedure: "
                            \o Debug(first), s))

(* One step on an expression.                                              *)
cps_eval(c, env, k, s) ==
    CASE c[1] = "Symbol" ->
            Continue(evaluate_symbol(c, Environment_get(s.heap, env, c[2]), s),
                     k)
      [] c[1] = "List" ->
            IF Len(c[2]) > 0
            THEN EvalState(c[2][1], env, Push(k, <<"Head", c[2], env>>), s)
            ELSE ReturnState(null, k, s)
      [] OTHER -> ReturnState(c, k, s)

(* An argument or a let binding has been defined (r): on to the next.      *)
cps_bound(r, frame, k) ==
    IF r.k # "Ok" THEN DoneState(r)
    ELSE IF frame[1] = "Arg"
    THEN cps_bind(frame[2], frame[3], frame[4], frame[5] + 1, frame[6],
                  frame[7], k, r.st)
    ELSE cps_let(frame[2], frame[3] + 1, frame[4], frame[5], frame[6], k,
                 r.st)

(* One step on a value: the innermost frame takes it; k is what is left.   *)
cps_resume(frame, val, k, s) ==
    CASE frame[1] = "Rest" ->
            IF frame[3] > Len(frame[2]) THEN ReturnState(val, k, s)
            ELSE cps_eval_values(frame[2], frame[3], frame[4], k, s)
      [] frame[1] = "Head" -> cps_apply_head(val, frame[2], frame[3], k, s)
      [] frame[1] = "Arg" ->
            cps_bound(Define(s, frame[7], frame[2][frame[5]], val),
                      frame, k)
      [] frame[1] = "Let" ->
            cps_bound(Define(s, frame[6], frame[2][frame[3]][2][1][2], val),
                      frame, k)
      [] frame[1] = "Define" -> Continue(Define(s, frame[3], frame[2], val), k)
      [] frame[1] = "Set" ->
            Continue(Stored(Environment_set(s.heap, frame[3], frame[2], val),
                            s), k)
      [] frame[1] = "If" ->
            IF val = Boolean(FALSE)
            THEN EvalState(frame[2][3], frame[3], k, s)
            ELSE EvalState(frame[2][2], frame[3], k, s)

cps_return(val, k, s) ==
    IF Len(k) = 0 THEN DoneState(Ok(val, s))
    ELSE cps_resume(Head(k), val, Tail(k), s)

(* The body of the trampoline loop.                                        *)
cps_step(m) ==
    IF m.mode = "eval" THEN cps_eval(m.c, m.env, m.k, m.s)
    ELSE cps_return(m.c, m.k, m.s)

(* The machine at the start of a program, run against the root.            *)
cps_run(values, s) == cps_eval_values(values, 1, 1, <<>>, s)

-----------------------------------------------------------------------------
(* Programs: the Values the parser hands to the interpreter.               *)

Symbols(names) == [i \in 1..Len(names) |-> Symbol(names[i])]
Call(head, args) == List(<<head>> \o args)
DefineForm(name, expr) == List(<<Symbol("define"), Symbol(name), expr>>)
DefineProc(name, arg_names, body) ==
    List(<<Symbol("define"), List(<<Symbol(name)>> \o Symbols(arg_names))>>
            \o body)
SetForm(name, expr) == List(<<Symbol("set!"), Symbol(name), expr>>)
LambdaForm(arg_names, body) ==
    List(<<Symbol("lambda"), List(Symbols(arg_names))>> \o body)
LetForm(name, expr, body) ==
    List(<<Symbol("let"), List(<<List(<<Symbol(name), expr>>)>>)>> \o body)
BeginForm(body) == List(<<Symbol("begin")>> \o body)
DisplayForm(text) == List(<<Symbol("display"), String(text)>>)

MaxOps == 2
MaxArity == 2
Names == {"x", "y"}
Vals == {1, 2}
ParamNames == <<"a", "b", "c", "d">>

(* (define n v) and (set! n 3) *)
DefineForms == {DefineForm(n, Integer(v)) : n \in Names, v \in Vals}
SetForms == {SetForm(n, Integer(3)) : n \in Names}
(* (let ((x 5)) 0): leaves a scope binding x and an empty scope below it.  *)
LetScope == LetForm("x", Integer(5), <<Integer(0)>>)

(* ((lambda (p) body... p) 7) *)
ShadowCall(p, body) ==
    Call(LambdaForm(<<p>>, body \o <<Symbol(p)>>), <<Integer(7)>>)
ShadowPlain == ShadowCall("x", <<>>)
ShadowSet == ShadowCall("x", <<SetForm("x", Integer(8))>>)
ShadowDefine == ShadowCall("x", <<DefineForm("x", Integer(4))>>)
ShadowSetOuter == ShadowCall("y", <<SetForm("x", Integer(8))>>)
ShadowCalls == {ShadowPlain, ShadowSet, ShadowDefine, ShadowSetOuter}

(* (define getx (lambda () x)) and (getx); a counter closure and its call. *)
DefineGetx == DefineForm("getx", LambdaForm(<<>>, <<Symbol("x")>>))
CallGetx == Call(Symbol("getx"), <<>>)
DefineBump ==
    DefineForm("bump",
        Call(LambdaForm(<<"c">>,
                <<LambdaForm(<<>>,
                    <<SetForm("c", Call(Symbol("+"), <<Symbol("c"), Integer(1)>>)),
                      Symbol("c")>>)>>),
             <<Integer(0)>>))
CallBump == Call(Symbol("bump"), <<>>)

(* Argument i of a call: (begin (display "i") e).                          *)
NoisyArg(i, expr) == BeginForm(<<DisplayForm(ToString(i)), expr>>)
NoisyArgs(k) == [i \in 1..k |-> NoisyArg(i, Integer(i))]
(* ((lambda (p1 .. pm) (display "b") (list p1 .. pm)) arg1 .. argk) *)
ArityCall(m, k) ==
    Call(LambdaForm(SubSeq(ParamNames, 1, m),
            <<DisplayForm("b"),
              Call(Symbol("list"), Symbols(SubSeq(ParamNames, 1, m)))>>),
         NoisyArgs(k))
ArityCalls == {ArityCall(m, k) : m \in 0..MaxArity, k \in 0..MaxArity}
(* (define (g a) (display "b") a) and (g (begin (display "1") x))          *)
DefineG == DefineProc("g", <<"a">>, <<DisplayForm("b"), Symbol("a")>>)
CallG == Call(Symbol("g"), <<NoisyArg(1, Symbol("x"))>>)

Forms ==
    DefineForms \cup SetForms \cup {LetScope} \cup ShadowCalls
        \cup {DefineGetx, CallGetx, DefineBump, CallBump}
        \cup ArityCalls \cup {DefineG, CallG}

(* test_duplicate_variable_definition: a second define of x at top level,  *)
(* in a lambda body and in a let body.                                     *)
TwoDefines == <<DefineForm("x", Integer(2)), DefineForm("x", Integer(3))>>
DuplicateDefineTop == TwoDefines
DuplicateDefineLambda == <<Call(LambdaForm(<<>>, TwoDefines), <<>>)>>
DuplicateDefineLet == <<LetForm("y", Integer(2), TwoDefines)>>
DuplicateDefines ==
    {DuplicateDefineTop, DuplicateDefineLambda, DuplicateDefineLet}

(* A closure called after the scope it was created in has changed.         *)
ClosureSeesDefine == <<DefineGetx, DefineForm("x", Integer(1)), CallGetx>>
ClosureSeesSet ==
    <<DefineForm("x", Integer(1)), DefineGetx, SetForm("x", Integer(3)),
      CallGetx>>
CounterProgram == <<DefineBump, CallBump, CallBump>>
ClosurePrograms == {ClosureSeesDefine, ClosureSeesSet, CounterProgram}

(* Definitions at the root, then a let that leaves its two scopes behind:  *)
(* (define x 2) (define (g a) ..) (define getx ..) (let ((x 5)) 0)         *)
Prelude == <<DefineForm("x", Integer(2)), DefineG, DefineGetx, LetScope>>

Programs ==
    {<<form>> : form \in Forms} \cup DuplicateDefines \cup ClosurePrograms
        \cup {Prelude}

(* The programs of the tests of main.rs (those without syntax errors),     *)
(* then a call of wrong arity, a call of a non-procedure, the printing     *)
(* procedures, divisions and an addition that overflows IntWidth bits.     *)
TestPrograms ==
  <<
    <<Integer(1)>>,
    <<Boolean(FALSE)>>,
    <<String("hi")>>,
    <<List(<<Symbol("lambda"), List(<<Symbol("x")>>), Symbol("x")>>)>>,
    <<List(<<Symbol("+"), Integer(2), Integer(3)>>)>>,
    <<List(<<Symbol("+"), Integer(2), Integer(3)>>), List(<<Symbol("+"),
      Integer(1), Integer(2)>>)>>,
    <<List(<<Symbol("+"), Integer(2), List(<<Symbol("-"), List(<<Symbol("+"),
      Integer(9), Integer(1)>>), Integer(4)>>)>>)>>,
    <<List(<<Symbol("list"), Integer(1), List(<<Symbol("list"), Integer(2),
      Integer(3)>>), List(<<Symbol("list"), Integer(4)>>),
      List(<<Symbol("list")>>)>>)>>,
    <<List(<<Symbol("cons"), List(<<Symbol("quote"), List(<<Integer(1)>>)>>),
      List(<<Symbol("quote"), List(<<Integer(2)>>)>>)>>)>>,
    <<List(<<Symbol("define"), Symbol("x"), Integer(2)>>),
      List(<<Symbol("+"), Symbol("x"), Symbol("x"), Symbol("x")>>)>>,
    <<List(<<Symbol("define"), Symbol("x"), Integer(2)>>),
      List(<<List(<<Symbol("lambda"), List(<<Symbol("x")>>), Symbol("x")>>),
      Integer(3)>>)>>,
    <<List(<<Symbol("define"), Symbol("x"), Integer(2)>>),
      List(<<Symbol("let"), List(<<List(<<Symbol("x"), Integer(3)>>)>>),
      Symbol("x")>>)>>,
    <<List(<<Symbol("define"), Symbol("x"), Integer(2)>>),
      List(<<List(<<Symbol("lambda"), List(<<Symbol("x")>>),
      List(<<Symbol("define"), Symbol("x"), Integer(4)>>), Symbol("x")>>),
      Integer(3)>>)>>,
    <<List(<<Symbol("define"), Symbol("x"), Integer(2)>>),
      List(<<Symbol("let"), List(<<List(<<Symbol("x"), Integer(3)>>)>>),
      List(<<Symbol("define"), Symbol("x"), Integer(4)>>), Symbol("x")>>)>>,
    <<List(<<Symbol("define"), Symbol("x"), Integer(2)>>),
      List(<<Symbol("define"), Symbol("x"), Integer(3)>>)>>,
    <<List(<<List(<<Symbol("lambda"), List(<<>>), List(<<Symbol("define"),
      Symbol("x"), Integer(2)>>), List(<<Symbol("define"), Symbol("x"),
      Integer(3)>>)>>)>>)>>,
    <<List(<<Symbol("let"), List(<<List(<<Symbol("y"), Integer(2)>>)>>),
      List(<<Symbol("define"), Symbol("x"), Integer(2)>>),
      List(<<Symbol("define"), Symbol("x"), Integer(3)>>)>>)>>,
    <<List(<<Symbol("define"), Symbol("x"), Integer(2)>>),
      List(<<Symbol("set!"), Symbol("x"), Integer(3)>>), List(<<Symbol("+"),
      Symbol("x"), Symbol("x"), Symbol("x")>>)>>,
    <<List(<<Symbol("define"), Symbol("x"), Integer(2)>>),
      List(<<List(<<Symbol("lambda"), List(<<>>), List(<<Symbol("set!"),
      Symbol("x"), Integer(3)>>)>>)>>), Symbol("x")>>,
    <<List(<<Symbol("define"), Symbol("x"), Integer(2)>>),
      List(<<Symbol("let"), List(<<List(<<Symbol("y"), Integer(2)>>)>>),
      List(<<Symbol("set!"), Symbol("x"), Integer(3)>>)>>), Symbol("x")>>,
    <<List(<<Symbol("set!"), Symbol("x"), Integer(3)>>)>>,
    <<List(<<Symbol("define"), Symbol("double"), List(<<Symbol("lambda"),
      List(<<Symbol("x")>>), List(<<Symbol("+"), Symbol("x"),
      Symbol("x")>>)>>)>>), List(<<Symbol("double"), Integer(8)>>)>>,
    <<List(<<Symbol("define"), Symbol("twice"), List(<<Symbol("lambda"),
      List(<<Symbol("f"), Symbol("v")>>), List(<<Symbol("f"),
      List(<<Symbol("f"), Symbol("v")>>)>>)>>)>>), List(<<Symbol("twice"),
      List(<<Symbol("lambda"), List(<<Symbol("x")>>), List(<<Symbol("+"),
      Symbol("x"), Symbol("x")>>)>>), Integer(8)>>)>>,
    <<List(<<Symbol("define"), Symbol("foo"), List(<<Symbol("λ"),
      List(<<Symbol("x")>>), List(<<Symbol("λ"), List(<<Symbol("y")>>),
      List(<<Symbol("+"), Symbol("x"), Symbol("y")>>)>>)>>)>>),
      List(<<Symbol("define"), Symbol("add2"), List(<<Symbol("foo"),
      Integer(2)>>)>>), List(<<Symbol("add2"), Integer(5)>>)>>,
    <<List(<<Symbol("define"), Symbol("foo"), List(<<Symbol("λ"),
      List(<<Symbol("x")>>), List(<<Symbol("λ"), List(<<Symbol("y")>>),
      List(<<Symbol("+"), Symbol("x"), Symbol("y")>>)>>)>>)>>),
      List(<<Symbol("define"), Symbol("add2"), List(<<Symbol("foo"),
      Integer(2)>>)>>), List(<<List(<<Symbol("λ"), List(<<Symbol("x")>>),
      List(<<Symbol("add2"), List(<<Symbol("+"), Symbol("x"),
      Integer(1)>>)>>)>>), Integer(1)>>)>>,
    <<List(<<Symbol("define"), List(<<Symbol("twice"), Symbol("f"),
      Symbol("v")>>), List(<<Symbol("f"), List(<<Symbol("f"),
      Symbol("v")>>)>>)>>), List(<<Symbol("twice"), List(<<Symbol("lambda"),
      List(<<Symbol("x")>>), List(<<Symbol("+"), Symbol("x"),
      Symbol("x")>>)>>), Integer(8)>>)>>,
    <<List(<<Symbol("define"), Symbol("x"), Integer(1)>>),
      List(<<Symbol("begin"), List(<<Symbol("set!"), Symbol("x"),
      Integer(5)>>), List(<<Symbol("set!"), Symbol("x"), List(<<Symbol("+"),
      Symbol("x"), Integer(2)>>)>>), Symbol("x")>>)>>,
    <<List(<<Symbol("let"), List(<<List(<<Symbol("x"), Integer(2)>>),
      List(<<Symbol("y"), Integer(3)>>)>>), List(<<Symbol("set!"), Symbol("y"),
      List(<<Symbol("+"), Symbol("y"), Integer(1)>>)>>), List(<<Symbol("+"),
      Symbol("x"), Symbol("y")>>)>>)>>,
    <<List(<<Symbol("if"), Integer(0), Integer(1), Integer(2)>>)>>,
    <<List(<<Symbol("if"), Boolean(FALSE), List(<<Symbol("error"),
      String("bad")>>), Integer(2)>>)>>,
    <<List(<<Symbol("and"), Integer(1), Boolean(FALSE),
      List(<<Symbol("error"), String("bad")>>)>>)>>,
    <<List(<<Symbol("or"), Integer(1), List(<<Symbol("error"),
      String("bad")>>)>>)>>,
    <<List(<<Symbol("quote"), List(<<Symbol("a"), Symbol("b"),
      List(<<Symbol("c"), List(<<Symbol("d")>>), Symbol("e"),
      List(<<>>)>>)>>)>>)>>,
    <<List(<<Symbol("quote"), List(<<Integer(1), List(<<Symbol("quote"),
      Integer(2)>>)>>)>>)>>,
    <<List(<<Symbol("quasiquote"), List(<<Integer(2),
      List(<<Symbol("unquote"), List(<<Symbol("+"), Integer(1),
      Integer(2)>>)>>), Integer(4)>>)>>)>>,
    <<List(<<Symbol("define"), Symbol("formula"), List(<<Symbol("quote"),
      List(<<Symbol("+"), Symbol("x"), Symbol("y")>>)>>)>>),
      List(<<Symbol("quasiquote"), List(<<List(<<Symbol("lambda"),
      List(<<Symbol("x"), Symbol("y")>>), List(<<Symbol("unquote"),
      Symbol("formula")>>)>>), Integer(2), Integer(3)>>)>>)>>,
    <<List(<<Symbol("apply"), Symbol("+"), List(<<Symbol("quote"),
      List(<<Integer(1), Integer(2), Integer(3)>>)>>)>>)>>,
    <<List(<<Symbol("define"), Symbol("foo"), List(<<Symbol("lambda"),
      List(<<Symbol("f")>>), List(<<Symbol("lambda"), List(<<Symbol("x"),
      Symbol("y")>>), List(<<Symbol("f"), List(<<Symbol("f"), Symbol("x"),
      Symbol("y")>>), Symbol("y")>>)>>)>>)>>), List(<<Symbol("apply"),
      List(<<Symbol("apply"), Symbol("foo"), List(<<Symbol("list"),
      Symbol("+")>>)>>), List(<<Symbol("quote"), List(<<Integer(5),
      Integer(3)>>)>>)>>)>>,
    <<List(<<Symbol("eval"), List(<<Symbol("quote"), List(<<Symbol("+"),
      Integer(1), Integer(2), Integer(3)>>)>>)>>)>>,
    <<List(<<Symbol("define"), Symbol("eval-formula"),
      List(<<Symbol("lambda"), List(<<Symbol("formula")>>),
      List(<<Symbol("eval"), List(<<Symbol("quasiquote"),
      List(<<List(<<Symbol("lambda"), List(<<Symbol("x"), Symbol("y")>>),
      List(<<Symbol("unquote"), Symbol("formula")>>)>>), Integer(2),
      Integer(3)>>)>>)>>)>>)>>), List(<<Symbol("eval-formula"),
      List(<<Symbol("quote"), List(<<Symbol("+"), List(<<Symbol("-"),
      Symbol("y"), Symbol("x")>>), Symbol("y")>>)>>)>>)>>,
    <<List(<<Symbol("define"), Symbol("bad-eval-formula"),
      List(<<Symbol("lambda"), List(<<Symbol("formula")>>),
      List(<<List(<<Symbol("lambda"), List(<<Symbol("x"), Symbol("y")>>),
      List(<<Symbol("eval"), Symbol("formula")>>)>>), Integer(2),
      Integer(3)>>)>>)>>), List(<<Symbol("bad-eval-formula"),
      List(<<Symbol("quote"), List(<<Symbol("+"), Symbol("x"),
      Symbol("y")>>)>>)>>)>>,
    <<List(<<Symbol("error"), String("fail, please")>>)>>,
    <<List(<<Symbol("error"), List(<<Symbol("+"), Integer(2),
      Integer(3)>>)>>)>>,
    <<List(<<Symbol("error"), String("fail, please")>>), Integer(5)>>,
    <<List(<<Symbol("define-syntax-rule"), List(<<Symbol("incr"),
      Symbol("x")>>), List(<<Symbol("set!"), Symbol("x"), List(<<Symbol("+"),
      Symbol("x"), Integer(1)>>)>>)>>), List(<<Symbol("define"), Symbol("a"),
      Integer(1)>>), List(<<Symbol("incr"), Symbol("a")>>), Symbol("a")>>,
    <<List(<<Symbol("define-syntax-rule"), List(<<Symbol("incr"),
      Symbol("x")>>), List(<<Symbol("set!"), Symbol("x"), List(<<Symbol("+"),
      Symbol("x"), Integer(1)>>)>>)>>), List(<<Symbol("define-syntax-rule"),
      List(<<Symbol("foo"), Symbol("x"), Symbol("y"), Symbol("z")>>),
      List(<<Symbol("if"), Symbol("x"), List(<<Symbol("incr"), Symbol("y")>>),
      List(<<Symbol("incr"), Symbol("z")>>)>>)>>), List(<<Symbol("define"),
      Symbol("a"), Boolean(TRUE)>>), List(<<Symbol("define"), Symbol("b"),
      Integer(10)>>), List(<<Symbol("define"), Symbol("c"), Integer(20)>>),
      List(<<Symbol("foo"), Symbol("a"), Symbol("b"), Symbol("c")>>),
      List(<<Symbol("set!"), Symbol("a"), Boolean(FALSE)>>),
      List(<<Symbol("foo"), Symbol("a"), Symbol("b"), Symbol("c")>>),
      List(<<Symbol("list"), Symbol("b"), Symbol("c")>>)>>,
    <<List(<<Symbol("define-syntax-rule"), List(<<Symbol("foo"),
      Symbol("x")>>), List(<<Symbol("if"), Symbol("x"), List(<<Symbol("+"),
      List(<<Symbol("foo"), Boolean(FALSE)>>), Integer(3)>>),
      Integer(10)>>)>>), List(<<Symbol("foo"), Boolean(TRUE)>>)>>,
    <<List(<<Symbol("define-syntax-rule"), List(<<Symbol("testy"),
      Symbol("a"), Symbol("b"), Symbol("c")>>), List(<<Symbol("if"),
      Symbol("a"), Symbol("b"), Symbol("c")>>)>>), List(<<Symbol("testy"),
      Boolean(TRUE), Integer(1), List(<<Symbol("error"), String("test")>>)>>),
      List(<<Symbol("testy"), Boolean(FALSE), List(<<Symbol("error"),
      String("test")>>), Integer(2)>>)>>,
    <<List(<<List(<<Symbol("lambda"), List(<<Symbol("a"), Symbol("b")>>),
      Symbol("a")>>), Integer(1)>>)>>,
    <<List(<<Integer(1), Integer(2)>>)>>,
    <<List(<<Symbol("display"), String("hi")>>), List(<<Symbol("write"),
      String("hi")>>), List(<<Symbol("print"), List(<<Symbol("quote"),
      List(<<Integer(1), String("a")>>)>>)>>), List(<<Symbol("newline")>>)>>,
    <<List(<<Symbol("/"), Integer(7), Integer(-2)>>)>>,
    <<List(<<Symbol("/"), Integer(1), Integer(0)>>)>>,
    <<List(<<Symbol("+"), Integer(100), Integer(100)>>)>>
  >>

MaxLoop == 3

(* (define (loop n) (if (= n 0) 0 (loop (- n 1)))) (loop depth): the       *)
(* recursive call is the last expression of the body.                      *)
TailLoop(depth) ==
    <<DefineProc("loop", <<"n">>,
        <<Call(Symbol("if"),
            <<Call(Symbol("="), <<Symbol("n"), Integer(0)>>),
              Integer(0),
              Call(Symbol("loop"),
                <<Call(Symbol("-"), <<Symbol("n"), Integer(1)>>)>>)>>)>>),
      Call(Symbol("loop"), <<Integer(depth)>>)>>

(* (define (down n) (if (= n 0) 0 (begin (down (- n 1)) n))) (down depth): *)
(* the recursive call is followed by another expression.                   *)
NestedLoop(depth) ==
    <<DefineProc("down", <<"n">>,
        <<Call(Symbol("if"),
            <<Call(Symbol("="), <<Symbol("n"), Integer(0)>>),
              Integer(0),
              BeginForm(
                <<Call(Symbol("down"),
                    <<Call(Symbol("-"), <<Symbol("n"), Integer(1)>>)>>),
                  Symbol("n")>>)>>)>>),
      Call(Symbol("down"), <<Integer(depth)>>)>>

CpsPrograms ==
    TestPrograms
        \o [depth \in 1..(MaxLoop + 1) |-> TailLoop(depth - 1)]
        \o [depth \in 1..(MaxLoop - 1) |-> NestedLoop(depth)]
        \o <<DuplicateDefineLambda, ClosureSeesSet, CounterProgram,
              <<ShadowSetOuter>>, <<DefineG, CallG>>,
              <<ArityCall(MaxArity, MaxArity)>>>>

-----------------------------------------------------------------------------
(* Programs about single forms, each run after one of the Setups.          *)

QuoteForm(datum) == List(<<Symbol("quote"), datum>>)
QuasiquoteForm(datum) == List(<<Symbol("quasiquote"), datum>>)
UnquoteForm(expr) == List(<<Symbol("unquote"), expr>>)

(* The sequences of at most n elements of the set S.                       *)
SeqsUpTo(S, n) == UNION {[1..k -> S] : k \in 0..n}


(* (apply (lambda (p1 .. pk) (list p1 .. pk)) (quote (e1 .. ek))): the     *)
(* result lists what the parameters were bound to.                         *)
ApplyElements ==
    {Integer(1), String("s"), Symbol("x"), Symbol("z"), null,
     Call(Symbol("+"), <<Integer(1), Integer(2)>>), DisplayForm("e")}
ApplyLists == SeqsUpTo(ApplyElements, MaxArity)
ApplyClosure(elements) ==
    Call(Symbol("apply"),
         <<LambdaForm(SubSeq(ParamNames, 1, Len(elements)),
                <<Call(Symbol("list"),
                       Symbols(SubSeq(ParamNames, 1, Len(elements))))>>),
           QuoteForm(List(elements))>>)
ApplyPrograms == {<<ApplyClosure(elements)>> : elements \in ApplyLists}

(* One scope around body, made by a let or by the call of a lambda:        *)
(* (let ((name 5)) body) or ((lambda (name) body) 5).                      *)
MaxScopes == 2
ScopeKinds == {"let", "lambda"}
ScopeNames == {"a", "x"}
Scoped(kind, name, body) ==
    IF kind = "let" THEN LetForm(name, Integer(5), <<body>>)
    ELSE Call(LambdaForm(<<name>>, <<body>>), <<Integer(5)>>)
(* body inside the scopes of chain, the first the outermost.               *)
RECURSIVE InScopes(_, _)
InScopes(chain, body) ==
    IF Len(chain) = 0 THEN body
    ELSE Scoped(chain[1][1], chain[1][2], InScopes(Tail(chain), body))
ScopeChains == SeqsUpTo(ScopeKinds \X ScopeNames, MaxScopes) \ {<<>>}

(* (eval (quote target)) inside scopes, and (let ((d (quote target)))      *)
(* (eval d)) inside scopes: the argument of eval is a local variable.      *)
EvalTargets == {"a", "x", "z"}
EvalForm(expr) == Call(Symbol("eval"), <<expr>>)
EvalQuoted(chain, target) ==
    InScopes(chain, EvalForm(QuoteForm(Symbol(target))))
EvalLocal(chain, target) ==
    InScopes(chain,
        List(<<Symbol("let"),
               List(<<List(<<Symbol("d"), QuoteForm(Symbol(target))>>)>>),
               EvalForm(Symbol("d"))>>))
EvalPrograms ==
    {<<EvalQuoted(chain, target)>> :
        chain \in ScopeChains, target \in EvalTargets}
    \cup {<<EvalLocal(chain, target)>> :
        chain \in ScopeChains, target \in EvalTargets}

(* Macros m of two parameters a and b.  MacroTemplate(t, a, b) is the body *)
(* template t written with a and b in the places of the parameters:        *)
(*   "if"      (if a b (display "n"))                                      *)
(*   "nested"  (list a (list b (list a)))                                  *)
(*   "quoted"  (quote (a (b)))                                             *)
(*   "set"     (set! a (+ a b))                                            *)
(*   "capture" (let ((x 9)) (list a b))                                    *)
MacroTemplates == {"if", "nested", "quoted", "set", "capture"}
MacroTemplate(t, a, b) ==
    CASE t = "if" -> Call(Symbol("if"), <<a, b, DisplayForm("n")>>)
      [] t = "nested" ->
            Call(Symbol("list"),
                 <<a, Call(Symbol("list"), <<b, Call(Symbol("list"), <<a>>)>>)>>)
      [] t = "quoted" -> QuoteForm(List(<<a, List(<<b>>)>>))
      [] t = "set" -> List(<<Symbol("set!"), a, Call(Symbol("+"), <<a, b>>)>>)
      [] t = "capture" ->
            LetForm("x", Integer(9), <<Call(Symbol("list"), <<a, b>>)>>)
(* (define-syntax-rule (m a b) template)                                   *)
DefineSyntaxRule(t) ==
    List(<<Symbol("define-syntax-rule"),
           List(<<Symbol("m"), Symbol("a"), Symbol("b")>>),
           MacroTemplate(t, Symbol("a"), Symbol("b"))>>)
MacroSetup(t) == <<DefineSyntaxRule(t), DefineForm("x", Integer(2)), LetScope>>
MacroSetups == {MacroSetup(t) : t \in MacroTemplates}
(* The argument expressions of a use, and the scopes around it.            *)
MacroArgs ==
    {Integer(1), Symbol("x"), Symbol("z"), NoisyArg(1, Boolean(TRUE)),
     NoisyArg(2, Boolean(FALSE)), Call(Symbol("error"), <<String("boom")>>)}
UseSites == SeqsUpTo(ScopeKinds \X ScopeNames, 1)
MacroUse(chain, a, b) == InScopes(chain, Call(Symbol("m"), <<a, b>>))
MacroPrograms ==
    {<<MacroUse(chain, a, b)>> :
        chain \in UseSites, a \in MacroArgs, b \in MacroArgs}

(* Data with two places u1 and u2, for quote and quasiquote:               *)
(*   "top"     u1                                                          *)
(*   "flat"    (1 u1 x u2)                                                 *)
(*   "nested"  ((display "n") (z u1 ("s" (u2))))                           *)
QuoteTemplates == {"top", "flat", "nested"}
QuoteTemplate(t, u1, u2) ==
    CASE t = "top" -> u1
      [] t = "flat" -> List(<<Integer(1), u1, Symbol("x"), u2>>)
      [] t = "nested" ->
            List(<<DisplayForm("n"),
                   List(<<Symbol("z"), u1,
                          List(<<String("s"), List(<<u2>>)>>)>>)>>)
(* The expressions X of the (unquote X) forms written in the places.       *)
Unquoted ==
    {Integer(1), Symbol("x"), Symbol("z"), NoisyArg(1, Integer(7)),
     QuoteForm(UnquoteForm(Symbol("x")))}
QuoteDatum(t, X1, X2) == QuoteTemplate(t, UnquoteForm(X1), UnquoteForm(X2))
QuotePrograms ==
    {<<QuoteForm(QuoteDatum(t, X1, X2))>> :
        t \in QuoteTemplates, X1 \in Unquoted, X2 \in Unquoted}
    \cup {<<QuasiquoteForm(QuoteDatum(t, X1, X2))>> :
        t \in QuoteTemplates, X1 \in Unquoted, X2 \in Unquoted}

(* Programs of up to MaxForms top-level forms: forms that print, a symbol  *)
(* that is unbound until the define of it has run, a constant, an error.   *)
MaxForms == 3
TopLevelForms ==
    {DisplayForm("a"), DisplayForm("b"), Symbol("z"),
     DefineForm("z", Integer(1)), Integer(3),
     Call(Symbol("error"), <<String("boom")>>)}
SequencePrograms == SeqsUpTo(TopLevelForms, MaxForms) \ {<<>>}

(* (define x 2) (let ((x 5)) (let ((y 6)) (let ((x 7)) 0))): leaves a      *)
(* chain of six scopes below the root, three of them binding x or y.       *)
DeepScopes ==
    <<DefineForm("x", Integer(2)),
      LetForm("x", Integer(5),
        <<LetForm("y", Integer(6),
            <<LetForm("x", Integer(7), <<Integer(0)>>)>>)>>)>>
(* The symbols looked up: bound in several scopes, in one, in none, and    *)
(* the name of a built-in procedure.                                       *)
LookupNames == {"x", "y", "z", "car"}
LookupPrograms == {<<Symbol(name)>> : name \in LookupNames}

(* Lists whose head evaluates to no procedure and no macro (an integer, a  *)
(* boolean, a string, a symbol, a list, the empty list, a custom handle),  *)
(* followed by up to two more elements; and the empty list.                *)
NonProcedureHeads ==
    {Integer(1), Boolean(TRUE), String("s"), QuoteForm(Symbol("car")),
     QuoteForm(List(<<Integer(1), Integer(2)>>)), null,
     CustomType("tag", "id"), Symbol("x"), NoisyArg(1, Integer(7))}
RemainingElements == {DisplayForm("r"), Symbol("z"), Integer(1)}
RemainingLists ==
    {<<>>} \cup {<<a>> : a \in RemainingElements}
        \cup {<<a, b>> : a \in RemainingElements, b \in RemainingElements}
HeadPrograms ==
    {<<Call(head, rest)>> : head \in NonProcedureHeads, rest \in RemainingLists}
        \cup {<<null>>}

(* Expressions to print, each with the text of its value as display shows  *)
(* it and as write shows it; datum tells whether the value is a List or a  *)
(* Symbol.                                                                 *)
Printed(expr, datum, display, write) ==
    [expr |-> expr, datum |-> datum, display |-> display, write |-> write]
PrintSamples ==
    {Printed(String("s"), FALSE, "s", "\"s\""),
     Printed(Integer(1), FALSE, "1", "1"),
     Printed(Boolean(TRUE), FALSE, "#t", "#t"),
     Printed(Boolean(FALSE), FALSE, "#f", "#f"),
     Printed(QuoteForm(Symbol("car")), TRUE, "car", "car"),
     Printed(Call(Symbol("list"), <<>>), TRUE, "()", "()"),
     Printed(Call(Symbol("list"), <<Integer(1), Integer(2), Integer(3)>>),
             TRUE, "(1 2 3)", "(1 2 3)"),
     Printed(QuoteForm(List(<<Symbol("a"), String("s"),
                              List(<<Boolean(TRUE)>>)>>)),
             TRUE, "(a s (#t))", "(a \"s\" (#t))")}
PrintForm(operation, expr) == Call(Symbol(operation), <<expr>>)
PrintPrograms ==
    {<<PrintForm(operation, sample.expr)>> :
        operation \in {"write", "display", "print"}, sample \in PrintSamples}

(* (if c a b) for conditions of every kind of value, each with whether it  *)
(* counts as true (holds), and branches that return, print, define or     *)
(* fail.  The last condition is an unbound symbol.                         *)
IfForm(c, a, b) == Call(Symbol("if"), <<c, a, b>>)
Condition(expr, holds) == [expr |-> expr, holds |-> holds]
Conditions ==
    {Condition(Boolean(TRUE), TRUE),
     Condition(Boolean(FALSE), FALSE),
     Condition(Integer(0), TRUE),
     Condition(String(""), TRUE),
     Condition(null, TRUE),
     Condition(QuoteForm(null), TRUE),
     Condition(Symbol("car"), TRUE),
     Condition(Call(Symbol("="), <<Integer(1), Integer(2)>>), FALSE),
     Condition(NoisyArg(1, Boolean(FALSE)), FALSE),
     Condition(NoisyArg(1, Integer(0)), TRUE),
     Condition(Symbol("z"), TRUE)}
Branches ==
    {Integer(1), NoisyArg(2, Integer(2)), DefineForm("y", Integer(3)),
     Call(Symbol("error"), <<String("bad")>>)}
IfPrograms ==
    {<<IfForm(c.expr, a, b)>> : c \in Conditions, a \in Branches, b \in Branches}

(* (/ a b) for operands that are integers (zero, the least integer, -1     *)
(* among them) and operands that are not.  The least integer is written    *)
(* as the difference that gives it.                                        *)
LeastInteger == Call(Symbol("-"), <<Integer(-IntMax), Integer(1)>>)
Operands ==
    {Integer(0), Integer(1), Integer(-1), Integer(7), Integer(-2),
     LeastInteger, String("s"), Boolean(TRUE), null, Symbol("z")}
DivideForm(a, b) == Call(Symbol("/"), <<a, b>>)
DividePrograms == {<<DivideForm(a, b)>> : a \in Operands, b \in Operands}

(* Programs that fail part-way: (define a 41) (set! a 42), then a form     *)
(* that raises a RuntimeError, then (define c 44).  Each failing form      *)
(* comes with done, the defines and set!s it performs before the error.    *)
Failing(form, done) == [form |-> form, done |-> done]
Stop == Call(Symbol("error"), <<String("stop")>>)
FailingForms ==
    {Failing(Stop, <<>>),
     Failing(Symbol("z"), <<>>),
     Failing(BeginForm(<<DefineForm("b", Integer(43)), Stop>>),
             <<DefineForm("b", Integer(43))>>),
     Failing(Call(Symbol("+"),
                  <<BeginForm(<<SetForm("a", Integer(45)), Integer(1)>>),
                    Symbol("z")>>),
             <<SetForm("a", Integer(45))>>),
     Failing(Call(LambdaForm(<<>>, <<SetForm("a", Integer(46)),
                                     DefineForm("b", Integer(47)), Stop>>),
                  <<>>),
             <<SetForm("a", Integer(46))>>),
     Failing(LetForm("a", Integer(48), <<SetForm("a", Integer(49)), Stop>>),
             <<>>)}
BeforeFailure == <<DefineForm("a", Integer(41)), SetForm("a", Integer(42))>>
AfterFailure == <<DefineForm("c", Integer(44))>>
FailingProgram(f) == BeforeFailure \o <<f.form>> \o AfterFailure
FailingPrograms == {FailingProgram(f) : f \in FailingForms}
LaterPrograms == {<<Symbol(name)>> : name \in {"a", "b", "c"}}

(* Program texts: lines that are well-formed forms (a define, a form that  *)
(* prints, a sum) and lines with a syntax error (a number run into a       *)
(* symbol character, a list that is not closed, a closing parenthesis      *)
(* with no list open), up to MaxLines of them.                             *)
(* (define a 1) *)
TextDefine ==
    <<"(", "d", "e", "f", "i", "n", "e", " ", "a", " ", "1", ")">>
(* (display 2) *)
TextDisplay ==
    <<"(", "d", "i", "s", "p", "l", "a", "y", " ", "2", ")">>
(* (+ 2 3) *)
TextSum ==
    <<"(", "+", " ", "2", " ", "3", ")">>
(* (22+) *)
TextGluedSymbol ==
    <<"(", "2", "2", "+", ")">>
(* (+ 1 2-) *)
TextGluedMinus ==
    <<"(", "+", " ", "1", " ", "2", "-", ")">>
(* (display 2 *)
TextOpen ==
    <<"(", "d", "i", "s", "p", "l", "a", "y", " ", "2">>
(* ) *)
TextClose ==
    <<")">>
MaxLines == 2
TextLines ==
    {TextDefine, TextDisplay, TextSum, TextGluedSymbol, TextGluedMinus,
     TextOpen, TextClose}
RECURSIVE Lines(_)
Lines(lines) ==
    IF Len(lines) = 0 THEN <<>>
    ELSE IF Len(lines) = 1 THEN lines[1]
    ELSE lines[1] \o <<"\n">> \o Lines(Tail(lines))
Texts == {Lines(lines) : lines \in SeqsUpTo(TextLines, MaxLines)}
TextSetups == {<<>>, <<DefineForm("a", Integer(5))>>, Prelude}

(* What a host keeps in the extension registry: values of two types under  *)
(* two tags and two identifiers.                                           *)
CustomTypes == {"i64", "String"}
CustomTags == {"Counter", "Name"}
CustomIds == {"1", "2"}
Boxes == {Box("i64", Integer(7)), Box("i64", Integer(8)),
          Box("String", String("s"))}
CustomArgs == {CustomType("Counter", "1"), CustomType("Name", "2"), Integer(1)}
CustomSetups == {<<>>, <<LetScope>>}

(* Values a host compares: one of each variant, lists with and without     *)
(* procedures in them, native procedures, and closures that differ in      *)
(* nothing but the environment they captured.                              *)
ComparedValues ==
    {Integer(1), Integer(2), Symbol("a"), String("a"), Boolean(TRUE), null,
     List(<<Integer(1), Integer(2)>>),
     List(<<Integer(1), Native("car")>>),
     List(<<Integer(2), Native("car")>>),
     List(<<Native("car")>>),
     Native("car"), Native("cdr"),
     Scheme(<<"x">>, <<Symbol("x")>>, 1),
     Scheme(<<"x">>, <<Symbol("x")>>, 2),
     Macro(<<"a">>, <<Symbol("a")>>),
     CustomType("Counter", "1")}

(* The test suites: a setup and the programs run after it.  The setup     *)
(* defines nothing, or defines x, g and getx at the root and leaves the    *)
(* two scopes of a let behind, or leaves nested scopes that shadow x, or   *)
(* defines a macro.                                                        *)
Suite(setup, programs) == [setup |-> setup, programs |-> programs]
Suites ==
    {Suite(<<>>,
           ApplyPrograms \cup EvalPrograms \cup QuotePrograms
                \cup SequencePrograms \cup LookupPrograms
                \cup HeadPrograms \cup PrintPrograms \cup IfPrograms
                \cup DividePrograms),
     Suite(Prelude,
           ApplyPrograms \cup EvalPrograms \cup QuotePrograms
                \cup LookupPrograms \cup HeadPrograms \cup IfPrograms),
     Suite(DeepScopes, LookupPrograms \cup QuotePrograms)}
        \cup {Suite(setup, MacroPrograms) : setup \in MacroSetups}
        \cup {Suite(setup, LaterPrograms) : setup \in FailingPrograms}
Setups == {suite.setup : suite \in Suites}
FormPrograms(setup) ==
    UNION {suite.programs : suite \in {u \in Suites : u.setup = setup}}

(* Programs for several interpreters and for the functions a host          *)
(* registers under the name h: (h), (h e1), (h e1 e2), and (h) in a scope  *)
(* that binds x.                                                           *)
HostArgs == {Integer(1), Symbol("x"), Symbol("z"), NoisyArg(1, Integer(7))}
HostArgLists ==
    {<<>>} \cup {<<a>> : a \in HostArgs}
        \cup {<<a, b>> : a \in HostArgs, b \in HostArgs}
HostCall(args) == Call(Symbol("h"), args)
HostScoped == InScopes(<<<<"let", "x">>>>, HostCall(<<>>))
HostForms ==
    {HostCall(args) : args \in HostArgLists}
        \cup {HostScoped, Symbol("x"), DefineForm("x", Integer(1)),
              DefineForm("x", Integer(2)), SetForm("x", Integer(3)),
              DefineGetx, CallGetx, DefineForm("car", Integer(0))}
HostPrograms == {<<form>> : form \in HostForms}

-----------------------------------------------------------------------------
(* The interpreter in use: st is its state, last records the operation     *)
(* just performed (its input, the state before it and its outcome).        *)

Init ==
    /\ \E checked \in BOOLEAN : st = Interpreter_new(Process(checked)).st
    /\ interpreters = <<Interpreter(1)>>
    /\ last = [op |-> "none", env |-> 0, values |-> <<>>,
               before |-> [heap |-> <<>>, out |-> "", checked |-> FALSE],
               k |-> "Ok", v |-> null]
    /\ nops = 0
    /\ prog = <<>>
    /\ pc = "idle"
    /\ tw = [k |-> "none"]
    /\ cps = [mode |-> "none"]
    /\ entered = <<>>
    /\ stored = EmptyMap

Alive == last.k # "Panic" /\ nops < MaxOps

(* The operation op on values in env has returned r.                       *)
Returned(op, values, env, r) ==
    /\ st' = r.st
    /\ last' = [op |-> op, env |-> env, values |-> values, before |-> st,
                k |-> r.k, v |-> r.v]
    /\ nops' = nops + 1
    /\ UNCHANGED <<interpreters, prog, pc, tw, cps, entered, stored>>

(* Interpreter::execute: the forms run against the root environment.       *)
Execute(values) ==
    /\ Alive
    /\ Returned("execute", values, 1,
                Interpreter_execute(interpreters[1], values, st))

(* evaluate_values called by host code with an environment it holds (a     *)
(* native function is handed the environment of the scope that called it). *)
Evaluate(values, env) ==
    /\ Alive
    /\ Returned("evaluate", values, env, evaluate_values(values, env, st))

Next ==
    \/ \E values \in Programs : Execute(values)
    \/ \E form \in Forms : \E env \in 2..Len(st.heap) : Evaluate(<<form>>, env)

Spec == Init /\ [][Next]_vars

-----------------------------------------------------------------------------
(* The two evaluators on one program, each from a fresh root environment:  *)
(* tw is the outcome of the tree-walking evaluator, cps the state of the   *)
(* trampoline, entered the continuations with which procedure bodies were  *)
(* started, oldest first.                                                  *)

InitCPS ==
    /\ \E checked \in BOOLEAN : st = Interpreter_new(Process(checked)).st
    /\ interpreters = <<Interpreter(1)>>
    /\ last = [op |-> "none", env |-> 0, values |-> <<>>,
               before |-> [heap |-> <<>>, out |-> "", checked |-> FALSE],
               k |-> "Ok", v |-> null]
    /\ nops = 0
    /\ \E i \in 1..Len(CpsPrograms) : prog = CpsPrograms[i]
    /\ pc = "tree-walk"
    /\ tw = [k |-> "none"]
    /\ cps = [mode |-> "none"]
    /\ entered = <<>>
    /\ stored = EmptyMap

(* execute with the tree-walking evaluator.                                *)
TreeWalk ==
    /\ pc = "tree-walk"
    /\ tw' = Interpreter_execute(interpreters[1], prog, st)
    /\ pc' = "cps"
    /\ UNCHANGED <<st, interpreters, last, nops, prog, cps, entered, stored>>

(* execute with the continuation-passing evaluator: the first triple.      *)
CpsStart ==
    /\ pc = "cps"
    /\ cps' = cps_run(prog, st)
    /\ pc' = "loop"
    /\ UNCHANGED <<st, interpreters, last, nops, prog, tw, entered, stored>>

(* One iteration of the trampoline loop.                                   *)
CpsStep ==
    /\ pc = "loop"
    /\ cps.mode # "done"
    /\ cps' = cps_step(cps)
    /\ entered' = IF cps'.enter THEN Append(entered, cps'.k) ELSE entered
    /\ UNCHANGED <<st, interpreters, last, nops, prog, pc, tw, stored>>

NextCPS == TreeWalk \/ CpsStart \/ CpsStep

SpecCPS == InitCPS /\ [][NextCPS]_vars

-----------------------------------------------------------------------------
(* One test of a form, as assert_execute! of main.rs runs it: a fresh      *)
(* interpreter, the setup of a suite, then a program of the suite run by   *)
(* execute, or its form evaluated in a scope the setup left.               *)

SetUp(values) ==
    /\ nops = 0
    /\ Returned("setup", values, 1,
                Interpreter_execute(interpreters[1], values, st))

ExecuteForm(values) ==
    /\ nops = 1
    /\ Returned("execute", values, 1,
                Interpreter_execute(interpreters[1], values, st))

EvaluateForm(values, env) ==
    /\ nops = 1
    /\ Returned("evaluate", values, env, evaluate_values(values, env, st))

(* last.values is the setup that ran.                                      *)
NextForms ==
    \/ \E values \in Setups : SetUp(values)
    \/ \E values \in FormPrograms(last.values) : ExecuteForm(values)
    \/ \E values \in FormPrograms(last.values) : \E env \in 2..Len(st.heap) :
            Len(values) = 1 /\ EvaluateForm(values, env)

SpecForms == Init /\ [][NextForms]_vars

-----------------------------------------------------------------------------
(* Program texts given to execute: the interpreter is set up by a first    *)
(* program and then given one text.                                        *)

ExecuteText(input) ==
    /\ nops = 1
    /\ Returned("execute_text", input, 1,
                Interpreter_execute_input(interpreters[1], input, st))

NextText ==
    \/ \E values \in TextSetups : SetUp(values)
    \/ \E input \in Texts : ExecuteText(input)

SpecText == Init /\ [][NextText]_vars

-----------------------------------------------------------------------------
(* A host that uses the extension registry of the environments it is       *)
(* handed (the root, and the scope a native function was called in): after *)
(* a first program it stores and reads up to MaxCustomOps times.  stored   *)
(* records, for each environment, tag and identifier, the value the host   *)
(* stored there last.                                                      *)

MaxCustomOps == 2

(* env.borrow_mut().set_custom(tag, identifier, value) *)
HostSetCustom(env, tag, identifier, value) ==
    /\ nops >= 1 /\ nops <= MaxCustomOps
    /\ st' = [st EXCEPT !.heap =
                Environment_set_custom(st.heap, env, tag, identifier, value).heap]
    /\ last' = [op |-> "set_custom", env |-> env,
                values |-> <<tag, identifier, value>>, before |-> st,
                k |-> "Ok",
                v |-> Environment_set_custom(st.heap, env, tag, identifier,
                                             value).v]
    /\ stored' = MapPut(stored, <<env, tag, identifier>>, value)
    /\ nops' = nops + 1
    /\ UNCHANGED <<interpreters, prog, pc, tw, cps, entered>>

(* env.borrow().get_custom::<T>(tag, identifier) *)
HostGetCustom(env, T, tag, identifier) ==
    /\ nops >= 1 /\ nops <= MaxCustomOps
    /\ Returned("get_custom", <<T, tag, identifier>>, env,
                Ok(Environment_get_custom(st.heap, env, T, tag, identifier), st))

(* A native function of the host called with arg reads its argument.       *)
HostParseCustomArg(env, arg, cust, T) ==
    /\ nops >= 1 /\ nops <= MaxCustomOps
    /\ Returned("parse_custom_arg", <<arg, cust, T>>, env,
                parse_custom_arg(env, <<arg>>, 1, cust, T, st))

NextCustom ==
    \/ \E values \in CustomSetups : SetUp(values)
    \/ \E env \in {1, Len(st.heap)} : \E tag \in CustomTags :
        \E identifier \in CustomIds : \E value \in Boxes :
            HostSetCustom(env, tag, identifier, value)
    \/ \E env \in {1, Len(st.heap)} : \E T \in CustomTypes :
        \E tag \in CustomTags : \E identifier \in CustomIds :
            HostGetCustom(env, T, tag, identifier)
    \/ \E arg \in CustomArgs : \E cust \in CustomTags : \E T \in CustomTypes :
            HostParseCustomArg(1, arg, cust, T)

SpecCustom == Init /\ [][NextCustom]_vars

-----------------------------------------------------------------------------
(* A host that compares Values with ==.  A comparison that never returns   *)
(* ends the process when the stack is exhausted, or runs forever in a      *)
(* build that turns the call of eq in eq into a jump.                      *)

MaxCompares == 1

StackOverflow(s) == [k |-> "Abort", v |-> "stack overflow", st |-> s]
RunsForever(s) == [k |-> "Hang", v |-> "", st |-> s]

Compared(a, b, s) ==
    IF Value_eq(a, b).k = "returns"
    THEN {Ok(Boolean(Value_eq(a, b).v), s)}
    ELSE {StackOverflow(s), RunsForever(s)}

HostCompare(a, b) ==
    /\ nops < MaxCompares
    /\ last.k = "Ok"
    /\ \E r \in Compared(a, b, st) : Returned("eq", <<a, b>>, 0, r)

NextValues ==
    \E a \in ComparedValues : \E b \in ComparedValues : HostCompare(a, b)

SpecValues == Init /\ [][NextValues]_vars

-----------------------------------------------------------------------------
(* A host with several interpreters in one process: interpreters are the   *)
(* Interpreter values it holds, made by Interpreter::new or by clone; it   *)
(* runs programs on them and registers functions with them.                *)

MaxInterpreters == 2

(* An operation that returns an Interpreter added it to the host's.        *)
Made(op, self, s) ==
    /\ st' = s
    /\ interpreters' = Append(interpreters, self)
    /\ last' = [op |-> op, env |-> self.root, values |-> <<>>, before |-> st,
                k |-> "Ok", v |-> null]
    /\ nops' = nops + 1
    /\ UNCHANGED <<prog, pc, tw, cps, entered, stored>>

HostNew ==
    /\ Alive
    /\ Len(interpreters) < MaxInterpreters
    /\ Made("new", Interpreter_new(st).self, Interpreter_new(st).st)

HostClone(i) ==
    /\ Alive
    /\ Len(interpreters) < MaxInterpreters
    /\ Made("clone", Interpreter_clone(interpreters[i]), st)

HostExecute(i, values) ==
    /\ Alive
    /\ Returned("execute", values, interpreters[i].root,
                Interpreter_execute(interpreters[i], values, st))

HostDefine(i, name, func) ==
    /\ Alive
    /\ Returned("define", <<Symbol(name), Native(func)>>,
                interpreters[i].root,
                Interpreter_define(interpreters[i], name, func, st))

NextHost ==
    \/ HostNew
    \/ \E i \in 1..Len(interpreters) : HostClone(i)
    \/ \E i \in 1..Len(interpreters) : \E values \in HostPrograms :
            HostExecute(i, values)
    \/ \E i \in 1..Len(interpreters) : \E func \in HostFunctions :
            HostDefine(i, "h", func)

SpecHost == Init /\ [][NextHost]_vars

-----------------------------------------------------------------------------
(* What the properties observe of the environment heap.                    *)

(* Every binding of the heap as <<node, name, value>>.                     *)
Bindings(heap) ==
    UNION {{<<e, key, heap[e].values[key]>> : key \in DOMAIN heap[e].values} :
            e \in 1..Len(heap)}
Parents(heap) == [e \in 1..Len(heap) |-> heap[e].parent]

(* The scope chain of env: env, its parent, ..., the root.                 *)
RECURSIVE EnvChain(_, _)
EnvChain(heap, env) ==
    IF env = 0 THEN <<>> ELSE <<env>> \o EnvChain(heap, heap[env].parent)

(* The positions in the scope chain of env whose node binds key.           *)
Binders(heap, env, key) ==
    {i \in 1..Len(EnvChain(heap, env)) :
        key \in DOMAIN heap[EnvChain(heap, env)[i]].values}

(* The nearest node of the scope chain of env that binds key.              *)
Nearest(heap, env, key) ==
    EnvChain(heap, env)[CHOOSE i \in Binders(heap, env, key) :
                            \A j \in Binders(heap, env, key) : i <= j]

(* A RuntimeError as the last operation reports it: execute returns        *)
(* e.to_string(), evaluate_values the RuntimeError itself.                 *)
Reported(message) ==
    IF last.op = "execute" THEN "RuntimeError: " \o message ELSE message

(* The nodes that existed before the last operation are as they were.      *)
OldNodesUnchanged ==
    /\ Len(st.heap) >= Len(last.before.heap)
    /\ \A e \in 1..Len(last.before.heap) : st.heap[e] = last.before.heap[e]

-----------------------------------------------------------------------------
(* Properties.                                                             *)

C5_SetChangesNearestBinding ==
    \A name \in Names :
        (/\ last.values = <<SetForm(name, Integer(3))>>
         /\ Binders(last.before.heap, last.env, name) # {}) =>
            /\ last.k = "Ok"
            /\ Parents(st.heap) = Parents(last.before.heap)
            /\ Bindings(st.heap) =
                    {b \in Bindings(last.before.heap) :
                        ~(b[1] = Nearest(last.before.heap, last.env, name)
                            /\ b[2] = name)}
                        \cup {<<Nearest(last.before.heap, last.env, name),
                                name, Integer(3)>>}

(* A set! of x from a scope that does not bind x, whose parent binds it    *)
(* and whose root binds it too.                                            *)
C5_Witness ==
    /\ last.values = <<SetForm("x", Integer(3))>>
    /\ 1 \notin Binders(last.before.heap, last.env, "x")
    /\ Cardinality(Binders(last.before.heap, last.env, "x")) >= 2

(* C6: set! of a name that no node of the scope chain binds fails with a   *)
(* RuntimeError naming the variable, and the heap (so every node of the    *)
(* chain, and the set of bindings) is unchanged.                           *)
C6_SetUnboundFails ==
    \A name \in Names :
        (/\ last.values = <<SetForm(name, Integer(3))>>
         /\ Binders(last.before.heap, last.env, name) = {}) =>
            /\ last.k = "Err"
            /\ last.v = Reported("Can't set! an undefined variable: \""
                                    \o name \o "\"")
            /\ st.heap = last.before.heap

(* A set! of an unbound y from a scope two levels below the root.          *)
C6_Witness ==
    /\ last.values = <<SetForm("y", Integer(3))>>
    /\ Binders(last.before.heap, last.env, "y") = {}
    /\ Len(EnvChain(last.before.heap, last.env)) >= 3

(* C7: a call of a closure whose parameter x is named like a variable of   *)
(* an outer scope gives the body the argument value, and every scope that  *)
(* existed before the call is unchanged after it, whether the body reads,  *)
(* sets or defines x. A body that sets x while the parameter is y changes  *)
(* no binding of a scope that existed except one of x.                     *)
C7_ParametersDoNotLeak ==
    /\ last.values = <<ShadowPlain>> =>
            last.k = "Ok" /\ last.v = Integer(7) /\ OldNodesUnchanged
    /\ last.values = <<ShadowSet>> =>
            last.k = "Ok" /\ last.v = Integer(8) /\ OldNodesUnchanged
    /\ last.values = <<ShadowDefine>> =>
            last.k = "Ok" /\ last.v = Integer(4) /\ OldNodesUnchanged
    /\ (/\ last.values = <<ShadowSetOuter>>
        /\ Binders(last.before.heap, last.env, "x") # {}) =>
            /\ last.k = "Ok"
            /\ last.v = Integer(7)
            /\ \A b \in Bindings(last.before.heap) :
                    b[2] # "x" => b \in Bindings(st.heap)

(* The call whose body sets its parameter x, made where an outer x is      *)
(* bound.                                                                  *)
C7_Witness ==
    /\ last.values = <<ShadowSet>>
    /\ Binders(last.before.heap, last.env, "x") # {}

(* C8: a closure shares the node it was created in. (getx) returns what    *)
(* the node getx was created and bound in resolves x to at the time of the *)
(* call; a define or a set! made after the closure was created is seen by  *)
(* the next call; and a counter closure created by a call that has         *)
(* returned is callable and counts on from its own state.                  *)
C8_ClosureSharesEnvironment ==
    /\ (/\ last.values = <<CallGetx>>
        /\ Binders(last.before.heap, last.env, "getx") # {}) =>
            IF Binders(last.before.heap,
                       Nearest(last.before.heap, last.env, "getx"), "x") # {}
            THEN /\ last.k = "Ok"
                 /\ <<Nearest(last.before.heap,
                        Nearest(last.before.heap, last.env, "getx"), "x"),
                      "x", last.v>> \in Bindings(last.before.heap)
            ELSE /\ last.k = "Err"
                 /\ last.v = Reported("Identifier not found: x")
    /\ last.values = ClosureSeesDefine =>
            last.k = "Ok" /\ last.v = Integer(1)
    /\ last.values = ClosureSeesSet =>
            last.k = "Ok" /\ last.v = Integer(3)
    /\ last.values = CounterProgram =>
            last.k = "Ok" /\ last.v = Integer(2)

(* getx, created when x was 1, has been called after x was set to 3.       *)
C8_Witness ==
    /\ last.values = ClosureSeesSet
    /\ last.op = "execute"

(* The output of the arguments 1..k of an ArityCall, in order.             *)
RECURSIVE Echo(_)
Echo(k) == IF k = 0 THEN "" ELSE Echo(k - 1) \o ToString(k)

(* C9: a call of a closure of m parameters with k argument expressions is  *)
(* a RuntimeError when k differs from m, and then no argument is           *)
(* evaluated; when k = m each argument is evaluated exactly once, left to  *)
(* right, before the body (the output is 1..k then b), and in the caller's *)
(* environment (an argument x is the caller's x, not the closure's).       *)
C9_ArgumentsOnceInOrderInCallerEnv ==
    /\ \A m \in 0..MaxArity : \A k \in 0..MaxArity :
            last.values = <<ArityCall(m, k)>> =>
                IF k # m
                THEN /\ last.k = "Err"
                     /\ last.v = Reported("Must supply exactly " \o ToString(m)
                                    \o " arguments to function: "
                                    \o DebugSlice(NoisyArgs(k)))
                     /\ st = last.before
                ELSE /\ last.k = "Ok"
                     /\ last.v = List([i \in 1..k |-> Integer(i)])
                     /\ st.out = last.before.out \o Echo(k) \o "b"
    /\ (/\ last.values = <<CallG>>
        /\ Binders(last.before.heap, last.env, "g") # {}
        /\ Binders(last.before.heap, last.env, "x") # {}) =>
            /\ last.k = "Ok"
            /\ <<Nearest(last.before.heap, last.env, "x"), "x", last.v>>
                    \in Bindings(last.before.heap)
            /\ st.out = last.before.out \o "1b"

(* A call with as many arguments as parameters, more than one.             *)
C9_Witness ==
    /\ last.values = <<ArityCall(MaxArity, MaxArity)>>
    /\ MaxArity >= 2
    /\ last.env > 1

(* C10: during a closure call the parameters are bound in a fresh child of *)
(* the captured environment and the body runs in a fresh child of that     *)
(* parameter scope: after ((lambda (x) (define x 4) x) 7) the parameter    *)
(* scope binds x to 7, the body scope below it binds x to 4, and the body  *)
(* has read 4.                                                             *)
C10_BodyScopeBelowParameterScope ==
    last.values = <<ShadowDefine>> =>
        /\ last.k = "Ok"
        /\ last.v = Integer(4)
        /\ Len(st.heap) = Len(last.before.heap) + 2
        /\ st.heap[Len(last.before.heap) + 1].parent = last.env
        /\ st.heap[Len(last.before.heap) + 1].values
                = [key \in {"x"} |-> Integer(7)]
        /\ st.heap[Len(last.before.heap) + 2].parent
                = Len(last.before.heap) + 1
        /\ st.heap[Len(last.before.heap) + 2].values
                = [key \in {"x"} |-> Integer(4)]

(* The call made from a scope below the root.                              *)
C10_Witness ==
    /\ last.values = <<ShadowDefine>>
    /\ last.env > 1

-----------------------------------------------------------------------------
(* Properties of the two evaluators.                                       *)

(* The outcome of execute with the continuation-passing evaluator.         *)
CpsOutcome ==
    Interpreter_execute_result([k |-> cps.r.k, v |-> cps.r.v, st |-> cps.s])

RECURSIVE Depth(_)
Depth(value) ==
    IF value[1] # "List" \/ Len(value[2]) = 0 THEN 0
    ELSE 1 + Depth(value[2][CHOOSE i \in 1..Len(value[2]) :
                    \A j \in 1..Len(value[2]) :
                        Depth(value[2][j]) <= Depth(value[2][i])])

(* C2: in the continuation-passing evaluator a closure applied in tail     *)
(* position starts its body with the caller's continuation unchanged: in a *)
(* self-recursive tail loop every call starts the body with the            *)
(* continuation the first call had, and the length of the continuation     *)
(* stays within the nesting depth of the program text, whatever the number *)
(* of calls.                                                               *)
C2_TailCallsKeepContinuation ==
    \A depth \in 0..MaxLoop :
        (pc = "loop" /\ prog = TailLoop(depth)) =>
            /\ \A i \in 1..Len(entered) : entered[i] = entered[1]
            /\ Len(cps.k) <= Depth(List(prog))

(* The longest tail loop has finished, its body started once per call.     *)
C2_Witness ==
    /\ pc = "loop"
    /\ prog = TailLoop(MaxLoop)
    /\ cps.mode = "done"
    /\ Len(entered) = MaxLoop + 1
    /\ MaxLoop >= 2

(* The continuation grows where the recursive call is not in tail          *)
(* position.                                                               *)
NestedCallsGrowContinuation ==
    /\ pc = "loop"
    /\ prog = NestedLoop(MaxLoop - 1)
    /\ Len(entered) = MaxLoop
    /\ \A i \in 1..(MaxLoop - 1) : Len(entered[i + 1]) > Len(entered[i])

-----------------------------------------------------------------------------
(* Properties of single forms (SpecForms).                                 *)

(* The last operation ran the one-form program <<form>>, by execute or by  *)
(* evaluate_values.                                                        *)
Ran(form) == last.op \in {"execute", "evaluate"} /\ last.values = <<form>>

(* The last operation ended as r, result and state.                        *)
SameAs(r) == last.k = r.k /\ last.v = r.v /\ st = r.st

(* C11: apply passes the elements of the list to the procedure as they     *)
(* are, evaluating none of them again: a closure applied to the list       *)
(* (e1 .. ek) has each parameter bound to exactly the element ei, also     *)
(* when ei is a symbol or a non-empty list, and nothing is printed.        *)
C11_ApplyBindsElementsAsTheyAre ==
    \A elements \in ApplyLists :
        Ran(ApplyClosure(elements)) =>
            /\ last.k = "Ok"
            /\ last.v = List(elements)
            /\ st.out = last.before.out

(* What evaluating the symbol name in the root environment gave before the *)
(* last operation: the value bound there or the unbound-variable error.    *)
AtRoot(name) ==
    IF name \in DOMAIN last.before.heap[1].values
    THEN [k |-> "Ok", v |-> last.before.heap[1].values[name]]
    ELSE [k |-> "Err", v |-> Reported("Identifier not found: " \o name)]

(* C12: eval evaluates its argument in the calling environment to a datum  *)
(* and the datum in the root environment: inside any chain of let and      *)
(* lambda scopes, evaluating a symbol through eval gives what the root     *)
(* binds it to, and the unbound-variable error when only the scopes below  *)
(* the root bind it.                                                       *)
C12_EvalResolvesAgainstRoot ==
    last.values \in EvalPrograms =>
        \A chain \in ScopeChains : \A target \in EvalTargets :
            (Ran(EvalQuoted(chain, target)) \/ Ran(EvalLocal(chain, target))) =>
                /\ last.k = AtRoot(target).k
                /\ last.v = AtRoot(target).v

(* eval of a name that scopes at full depth bind and the root does not.    *)
C12_Witness ==
    \E chain \in ScopeChains :
        /\ Len(chain) = MaxScopes
        /\ \A i \in 1..Len(chain) : chain[i][2] = "a"
        /\ Ran(EvalLocal(chain, "a"))
        /\ last.op = "execute"
        /\ last.k = "Err"
        /\ last.v = "RuntimeError: Identifier not found: a"

(* What running values in the place of the last operation's input gives:   *)
(* the same call on the state the last operation started from.             *)
Rerun(values) ==
    IF last.op = "execute"
    THEN Interpreter_execute(Interpreter(last.env), values, last.before)
    ELSE evaluate_values(values, last.env, last.before)

(* The root bound m to the macro of template t before the last operation.  *)
MacroDefined(t) ==
    /\ "m" \in DOMAIN last.before.heap[1].values
    /\ last.before.heap[1].values["m"]
            = Macro(<<"a", "b">>, <<MacroTemplate(t, Symbol("a"), Symbol("b"))>>)

(* C13: a use (m e1 e2) of a macro behaves as its template with e1 and e2  *)
(* written, unevaluated, in every place of the parameters at every depth,  *)
(* evaluated where the use stands: same result or error, same output       *)
(* (an argument prints when and as often as the template evaluates it),    *)
(* same environments.                                                      *)
C13_MacroUseIsItsTemplate ==
    last.values \in MacroPrograms =>
        \A t \in MacroTemplates : \A chain \in UseSites :
            \A a \in MacroArgs : \A b \in MacroArgs :
                (Ran(MacroUse(chain, a, b)) /\ MacroDefined(t)) =>
                    SameAs(Rerun(<<InScopes(chain, MacroTemplate(t, a, b))>>))

(* (m (begin (display "2") #f) (begin (display "1") #t)) of the template   *)
(* (if a b (display "n")) inside a scope: the second argument is never     *)
(* evaluated.                                                              *)
C13_Witness ==
    \E chain \in UseSites :
        /\ Len(chain) = 1
        /\ Ran(MacroUse(chain, NoisyArg(2, Boolean(FALSE)),
                        NoisyArg(1, Boolean(TRUE))))
        /\ MacroDefined("if")
        /\ last.k = "Ok"
        /\ st.out = last.before.out \o "2n"

(* The outcome r as the last operation returns it: execute turns the       *)
(* RuntimeError into its text.                                             *)
Outcome(r) ==
    IF last.op = "execute" THEN Interpreter_execute_result(r) ELSE r
(* The last operation ended as r: same result or error, same state.        *)
EndedAs(r) ==
    /\ last.k = Outcome(r).k
    /\ last.v = Outcome(r).v
    /\ st = r.st

(* The datum of template t whose places hold the values of X1 and X2,      *)
(* evaluated in this order in the environment of the last operation.       *)
Quasiquoted(t, X1, X2) ==
    Try(evaluate_value(X1, last.env, last.before),
        LAMBDA v1, s1 :
            IF t = "top" THEN Ok(QuoteTemplate(t, v1, v1), s1)
            ELSE Try(evaluate_value(X2, last.env, s1),
                     LAMBDA v2, s2 : Ok(QuoteTemplate(t, v1, v2), s2)))

(* C14: quasiquote returns its argument with every (unquote X) in it, at   *)
(* any depth, replaced by the value of X in the current environment and    *)
(* everything else as written, unevaluated; quote returns its argument as  *)
(* written, the (unquote X) forms included, and evaluates nothing.         *)
C14_QuasiquoteFillsUnquotes ==
    last.values \in QuotePrograms =>
        \A t \in QuoteTemplates : \A X1 \in Unquoted : \A X2 \in Unquoted :
            /\ Ran(QuasiquoteForm(QuoteDatum(t, X1, X2))) =>
                    EndedAs(Quasiquoted(t, X1, X2))
            /\ Ran(QuoteForm(QuoteDatum(t, X1, X2))) =>
                    EndedAs(Ok(QuoteDatum(t, X1, X2), last.before))

(* A quasiquote in a scope where x is 5, with unquotes three lists deep.   *)
C14_Witness ==
    /\ Ran(QuasiquoteForm(QuoteDatum("nested", NoisyArg(1, Integer(7)),
                                     Symbol("x"))))
    /\ last.op = "evaluate"
    /\ last.k = "Ok"
    /\ last.v = QuoteTemplate("nested", Integer(7), Integer(5))
    /\ st.out = last.before.out \o "1"

-----------------------------------------------------------------------------
(* Properties of the host interface (SpecHost).                            *)

(* Before the last operation, its environment bound h to the native        *)
(* function made by Interpreter::define for func.                          *)
HostDefined(func) ==
    /\ "h" \in DOMAIN last.before.heap[last.env].values
    /\ last.before.heap[last.env].values["h"] = Native(func)

-----------------------------------------------------------------------------
(* Properties of execute on a sequence of forms (SpecForms).               *)

(* The forms of values from index i on, each run by an execute call of its *)
(* own on the state the one before left, up to the first that fails: the   *)
(* outcome of the last one run.                                            *)
RECURSIVE OneByOne(_, _, _, _)
RECURSIVE ThenTheRest(_, _, _, _)
OneByOne(self, values, i, s) ==
    IF i = Len(values) THEN Interpreter_execute(self, <<values[i]>>, s)
    ELSE ThenTheRest(self, values, i,
                     Interpreter_execute(self, <<values[i]>>, s))
ThenTheRest(self, values, i, r) ==
    IF r.k # "Ok" THEN r ELSE OneByOne(self, values, i + 1, r.st)

(* C16: execute on several top-level forms runs them in order up to the    *)
(* first that raises a RuntimeError and returns that error, the state      *)
(* being the one that form left (no later form has run); when none fails   *)
(* it returns the value of the last form.                                  *)
C16_ErrorEndsExecute ==
    (last.op = "execute" /\ last.values \in SequencePrograms) =>
        SameAs(OneByOne(Interpreter(last.env), last.values, 1, last.before))

(* (display "a") z (display "b") with z unbound: a is printed, b is not.   *)
C16_Witness ==
    /\ last.op = "execute"
    /\ last.values = <<DisplayForm("a"), Symbol("z"), DisplayForm("b")>>
    /\ last.k = "Err"
    /\ last.v = "RuntimeError: Identifier not found: z"
    /\ st.out = last.before.out \o "a"
    /\ st.heap = last.before.heap

-----------------------------------------------------------------------------
(* Properties of evaluate_value (SpecForms).                               *)

(* C17: evaluating a symbol gives the value it has in the nearest scope of *)
(* the chain from the current scope to the root that binds it, and the     *)
(* RuntimeError "Identifier not found: <symbol>" when no scope of the      *)
(* chain binds it; nothing is changed.                                     *)
C17_SymbolIsNearestBinding ==
    \A name \in LookupNames :
        Ran(Symbol(name)) =>
            /\ st = last.before
            /\ IF Binders(last.before.heap, last.env, name) = {}
               THEN /\ last.k = "Err"
                    /\ last.v = Reported("Identifier not found: " \o name)
               ELSE /\ last.k = "Ok"
                    /\ last.v = last.before.heap[
                            Nearest(last.before.heap, last.env, name)
                        ].values[name]

(* x looked up in a scope that binds it to 7, below scopes that bind it to *)
(* 5 and to 2.                                                             *)
C17_Witness ==
    /\ Ran(Symbol("x"))
    /\ Cardinality(Binders(last.before.heap, last.env, "x")) = 3
    /\ last.k = "Ok"
    /\ last.v = Integer(7)

(* C18: evaluating a non-empty list whose head evaluates to a value that   *)
(* is neither a Procedure nor a Macro is a RuntimeError naming that value, *)
(* and the state is the one the evaluation of the head left: no other      *)
(* element has been evaluated.  Evaluating the empty list gives the empty  *)
(* list.                                                                   *)
C18_NonProcedureHeadIsError ==
    /\ \A head \in NonProcedureHeads : \A rest \in RemainingLists :
            Ran(Call(head, rest)) =>
                /\ last.k = "Err"
                /\ st = Rerun(<<head>>).st
                /\ Rerun(<<head>>).k = "Ok" =>
                        /\ ~ Rerun(<<head>>).v[1] \in {"Procedure", "Macro"}
                        /\ last.v = Reported(
                                "First element in an expression must be a procedure: "
                                    \o Debug(Rerun(<<head>>).v))
    /\ Ran(null) => SameAs(Ok(null, last.before))

(* ((begin (display "1") 7) (display "r") z): the head has printed, the    *)
(* other elements have not been evaluated.                                 *)
C18_Witness ==
    /\ Ran(Call(NoisyArg(1, Integer(7)), <<DisplayForm("r"), Symbol("z")>>))
    /\ last.k = "Err"
    /\ last.v = Reported("First element in an expression must be a procedure: 7")
    /\ st.out = last.before.out \o "1"

-----------------------------------------------------------------------------
(* Properties of the printing procedures (SpecForms).                      *)

(* The last operation printed text and nothing else.                       *)
HasPrinted(text) == last.k = "Ok" /\ st.out = last.before.out \o text

(* The write text of a sample with a quote mark before it when the value   *)
(* is a List or a Symbol.                                                  *)
Marked(sample) ==
    IF sample.datum THEN "'" \o sample.write ELSE sample.write

Resolved(heap, root, name) ==
    IF name \in DOMAIN heap[root].values
    THEN <<"bound", heap[root].values[name]>>
    ELSE <<"unbound", null>>
IsolationNames == {"x", "getx", "h", "car"}

(* The last operation was a call of execute or define.                     *)
Called == last.op \in {"execute", "define"}

-----------------------------------------------------------------------------
(* C21: (if c a b) evaluates c once and then exactly one branch, b when    *)
(* the value of c is #f and a for every other value (0, "", the empty      *)
(* list, a procedure): it behaves as the two forms c and the selected      *)
(* branch run one after the other, same result or error, same output,      *)
(* same environments, so nothing of the other branch happens.              *)
C21_IfRunsConditionThenOneBranch ==
    last.values \in IfPrograms =>
        \A c \in Conditions : \A a \in Branches : \A b \in Branches :
            Ran(IfForm(c.expr, a, b)) =>
                SameAs(Rerun(<<c.expr, IF c.holds THEN a ELSE b>>))

(* (if 0 (begin (display "2") 2) (error "bad")) has run: 0 selected the    *)
(* first branch, which printed and returned, and no error was raised.      *)
C21_Witness ==
    /\ Ran(IfForm(Integer(0), NoisyArg(2, Integer(2)),
                  Call(Symbol("error"), <<String("bad")>>)))
    /\ last.k = "Ok"
    /\ last.v = Integer(2)
    /\ st.out = last.before.out \o "2"
-----------------------------------------------------------------------------
(* C24: every evaluation of (/ a b) completes with an Integer or with a    *)
(* RuntimeError and never aborts the interpreter, for operands that are    *)
(* not integers and for integer operands, b = 0 and (least integer, -1)    *)
(* included.                                                               *)
C24_DivideNeverAborts ==
    \A a \in Operands : \A b \in Operands :
        Ran(DivideForm(a, b)) =>
            \/ last.k = "Ok" /\ last.v[1] = "Integer"
            \/ last.k = "Err"
-----------------------------------------------------------------------------
(* C25: an execute call that ends in a RuntimeError rolls nothing back.    *)
(* After a program that fails part-way the root environment binds exactly  *)
(* what the forms before the failure and the part of the failing form      *)
(* evaluated before the error defined and set (and nothing of the forms    *)
(* after it); and a later execute call on the same interpreter resolves    *)
(* names against that root environment.                                    *)
C25_FailedExecuteKeepsChanges ==
    /\ \A f \in FailingForms :
            (last.op = "setup" /\ last.values = FailingProgram(f)) =>
                /\ last.k = "Err"
                /\ st.heap[1]
                    = Interpreter_execute(Interpreter(1), BeforeFailure \o f.done,
                                          last.before).st.heap[1]
                /\ st.heap[1].values["a"] # Integer(41)
                /\ "c" \notin DOMAIN st.heap[1].values
    /\ \A name \in {"a", "b", "c"} :
            (last.op = "execute" /\ Ran(Symbol(name))) =>
                /\ st = last.before
                /\ last.k = AtRoot(name).k
                /\ last.v = AtRoot(name).v

(* An execute call has returned the value that b was given inside the      *)
(* form that failed in the call before it.                                 *)
C25_Witness ==
    /\ last.op = "execute"
    /\ Ran(Symbol("b"))
    /\ last.k = "Ok"
    /\ last.v = Integer(43)
-----------------------------------------------------------------------------
(* Properties of program texts (SpecText).                                 *)

(* What makes a text malformed, read off its characters: a closing         *)
(* parenthesis with no list open, a list open at the end, or a number run  *)
(* into a character that is neither a digit nor a delimiter.               *)
RECURSIVE Nesting(_, _)
Nesting(text, n) ==
    IF n = 0 THEN 0
    ELSE Nesting(text, n - 1)
            + (IF text[n] = "(" THEN 1 ELSE IF text[n] = ")" THEN -1 ELSE 0)
Unbalanced(text) ==
    \/ Nesting(text, Len(text)) # 0
    \/ \E n \in 1..Len(text) : Nesting(text, n) < 0
StartsWord(text, j) == j = 1 \/ text[j - 1] \in Delimiters
Glued(text) ==
    \E j \in 1..Len(text) : \E n \in j..(Len(text) - 1) :
        /\ StartsWord(text, j)
        /\ \A m \in j..n : text[m] \in Digits
        /\ text[n + 1] \notin Digits \cup Delimiters
Malformed(text) == Unbalanced(text) \/ Glued(text)

(* The texts of syntax errors: a message, a line, a column (no line is     *)
(* longer than the define).                                                *)
SyntaxMessages ==
    {"Unexpected character when looking for a delimiter: +",
     "Unexpected character when looking for a delimiter: -",
     "Unexpected end of input while looking for a closing paren",
     "Unexpected closing paren"}
SyntaxErrors ==
    {SyntaxError_to_string(SyntaxError(message, line, column)) :
        message \in SyntaxMessages, line \in 1..MaxLines,
        column \in 1..(Len(TextDefine) + 1)}

(* C26: when the text given to execute has a syntax error anywhere, also   *)
(* after well-formed top-level forms, the call returns the SyntaxError and *)
(* has evaluated no form: the environments and the output are exactly what *)
(* they were before the call.                                              *)
C26_SyntaxErrorRunsNothing ==
    /\ (last.op = "execute_text" /\ Malformed(last.values)) =>
            /\ last.k = "Err"
            /\ last.v \in SyntaxErrors
            /\ st = last.before
    /\ (last.op = "execute_text"
            /\ last.values = Lines(<<TextSum, TextGluedMinus>>)) =>
            last.v = "SyntaxError: Unexpected character when looking for a delimiter: - (line: 2, column: 7)"

(* (define a 1) on the first line and (22+) on the second: the error of    *)
(* line 2 is returned and a is not defined.                                *)
C26_Witness ==
    /\ last.op = "execute_text"
    /\ last.values = Lines(<<TextDefine, TextGluedSymbol>>)
    /\ last.k = "Err"
    /\ last.v = "SyntaxError: Unexpected character when looking for a delimiter: + (line: 2, column: 4)"
    /\ "a" \notin DOMAIN st.heap[1].values
-----------------------------------------------------------------------------
(* Properties of the extension registry (SpecCustom).                      *)

(* What get_custom::<T>(tag, identifier) on env is to return: the value    *)
(* stored there last when it is a T, and none otherwise.                   *)
StoredLast(env, T, tag, identifier) ==
    IF <<env, tag, identifier>> \notin DOMAIN stored THEN None
    ELSE IF stored[<<env, tag, identifier>>].type # T THEN None
    ELSE Some(stored[<<env, tag, identifier>>].val)

(* C22: after set_custom(tag, id, v) on an environment, get_custom(tag,    *)
(* id) on that environment returns the value most recently stored under    *)
(* (tag, id) when the requested type is the type of that value, and none   *)
(* (no failure) when the type is another one or nothing was ever stored    *)
(* under the tag or the identifier in that environment; set_custom         *)
(* returns the handle CustomType(tag, id); parse_custom_arg gives the      *)
(* value or a RuntimeError.                                                *)
C22_GetCustomReturnsLastStored ==
    /\ \A env \in 1..Len(st.heap) : \A T \in CustomTypes :
        \A tag \in CustomTags : \A identifier \in CustomIds :
            Environment_get_custom(st.heap, env, T, tag, identifier)
                = StoredLast(env, T, tag, identifier)
    /\ last.op = "get_custom" =>
            /\ last.k = "Ok"
            /\ last.v = StoredLast(last.env, last.values[1], last.values[2],
                                   last.values[3])
            /\ st = last.before
    /\ last.op = "set_custom" =>
            /\ last.k = "Ok"
            /\ last.v = CustomType(last.values[1], last.values[2])
    /\ last.op = "parse_custom_arg" =>
            /\ st = last.before
            /\ \/ /\ last.k = "Ok"
                  /\ last.values[1][1] = "CustomType"
                  /\ last.values[1][2][1] = last.values[2]
                  /\ Some(last.v) = StoredLast(last.env, last.values[3],
                                               last.values[2],
                                               last.values[1][2][2])
               \/ last.k = "Err"

(* 7 was stored, then 8 under the same tag and identifier of the same      *)
(* environment: the i64 read there is 8, and no String is.                 *)
C22_Witness ==
    /\ last.op = "set_custom"
    /\ last.values[3] = Box("i64", Integer(8))
    /\ Environment_get_custom(last.before.heap, last.env, "i64",
                              last.values[1], last.values[2])
            = Some(Integer(7))
    /\ Environment_get_custom(st.heap, last.env, "i64",
                              last.values[1], last.values[2])
            = Some(Integer(8))
    /\ Environment_get_custom(st.heap, last.env, "String",
                              last.values[1], last.values[2]) = None
-----------------------------------------------------------------------------
(* C23: comparing any two Values for equality terminates and returns a     *)
(* boolean, for every pair of variants, two Procedure values (native or    *)
(* closure) included.                                                      *)
C23_EqualityTerminates ==
    last.op = "eq" =>
        /\ last.k = "Ok"
        /\ last.v \in {Boolean(TRUE), Boolean(FALSE)}
====
